---------------------------- MODULE Spec2Model ----------------------------
(***************************************************************************)
(* A model of libcel-ts: the Lexer (parser/lexer.ts), the recursive        *)
(* descent Parser (parser/parser.ts), the tree-walking Interpreter         *)
(* (interpreter/index.ts), the value utilities (functions/utilities.ts)    *)
(* and Program (program.ts).                                               *)
(*                                                                         *)
(* JavaScript strings are sequences of one-character strings, so that a    *)
(* token's text, an identifier's name, a map key and a string value are    *)
(* one representation, as they are in the source.  JavaScript numbers are  *)
(* exact rationals p/q in lowest terms (q = 1 for an integral number);     *)
(* rounding of IEEE doubles is not modelled.  A JavaScript object is its   *)
(* own properties plus its prototype link, because the source tests        *)
(* membership with the `in` operator, which follows that link.             *)
(***************************************************************************)
EXTENDS Integers, Sequences, FiniteSets, TLC

(***************************************************************************)
(* Property names and other strings of the source.                         *)
(***************************************************************************)
S_toString    == <<"t","o","S","t","r","i","n","g">>
S_constructor == <<"c","o","n","s","t","r","u","c","t","o","r">>
S_valueOf     == <<"v","a","l","u","e","O","f">>
S_proto       == <<"_","_","p","r","o","t","o","_","_">>
S_length      == <<"l","e","n","g","t","h">>
S_map         == <<"m","a","p">>
S_filter      == <<"f","i","l","t","e","r">>
S_all         == <<"a","l","l">>
S_exists      == <<"e","x","i","s","t","s">>
S_existsOne   == <<"e","x","i","s","t","s","O","n","e">>
S_null        == <<"n","u","l","l">>
S_true        == <<"t","r","u","e">>
S_false       == <<"f","a","l","s","e">>
S_in          == <<"i","n">>
S_undefined   == <<"u","n","d","e","f","i","n","e","d">>
S_objectObject == <<"[","o","b","j","e","c","t"," ","O","b","j","e","c","t","]">>
S_function    == <<"f","u","n","c","t","i","o","n">>
S_push        == <<"p","u","s","h">>

\* The properties every object inherits from Object.prototype that the model
\* tracks (data properties holding functions, and the __proto__ accessor).
ObjectPrototypeFns == {S_toString, S_constructor, S_valueOf}
ObjectPrototypeKeys == ObjectPrototypeFns \cup {S_proto}
\* The properties a list inherits from Array.prototype that the model tracks.
ArrayPrototypeFns == {S_map, S_filter, S_push, S_toString}

(***************************************************************************)
(* Runtime values.                                                         *)
(***************************************************************************)
Null      == [t |-> "null"]
Undefined == [t |-> "undefined"]
Bool(b)   == [t |-> "bool", b |-> b]
Str(s)    == [t |-> "str", s |-> s]
List(l)   == [t |-> "list", l |-> l]
\* Object.prototype and Array.prototype themselves, and the functions they hold.
ObjProto   == [t |-> "objproto"]
ArrayProto == [t |-> "arrayproto"]
Fn(of, name) == [t |-> "fn", of |-> of, name |-> name]
\* A plain object: own enumerable properties and the prototype link.
ObjP(own, proto) == [t |-> "obj", own |-> own, proto |-> proto]
Obj(own) == ObjP(own, ObjProto)
EmptyOwn == [k \in {} |-> Null]

Abs(n) == IF n < 0 THEN -n ELSE n

RECURSIVE Gcd(_, _)
Gcd(a, b) == IF b = 0 THEN a ELSE Gcd(b, a % b)

\* The number p/q in lowest terms with a positive denominator; with q = 0,
\* an infinity of the sign of p, and what is not a number for 0/0.
Num(p, q) ==
  IF q = 0 THEN [t |-> "num", p |-> IF p > 0 THEN 1 ELSE IF p < 0 THEN -1 ELSE 0, q |-> 0]
  ELSE LET g == Gcd(Abs(p), Abs(q))
           s == IF q < 0 THEN -1 ELSE 1
       IN [t |-> "num", p |-> (s * p) \div g, q |-> Abs(q) \div g]
IntV(n) == Num(n, 1)

IsNumber(v)  == v.t = "num"
IsString(v)  == v.t = "str"
IsBoolean(v) == v.t = "bool"
\* Array.isArray
IsArray(v)   == v.t \in {"list", "arrayproto"}
\* typeof v === 'object' (which holds of null too)
IsTypeofObject(v) == v.t \in {"null", "obj", "list", "objproto", "arrayproto"}
IsNullish(v) == v.t \in {"null", "undefined"}
Elems(v) == IF v.t = "list" THEN v.l ELSE <<>>

\* What is not a number, and n === 0
NaN == [t |-> "num", p |-> 0, q |-> 0]
NumIsZero(n) == n.p = 0 /\ n.q # 0
NumAdd(a, b) == Num(a.p * b.q + b.p * a.q, a.q * b.q)
NumSub(a, b) == Num(a.p * b.q - b.p * a.q, a.q * b.q)
NumMul(a, b) == Num(a.p * b.p, a.q * b.q)
NumDiv(a, b) == Num(a.p * b.q, a.q * b.p)
NumNeg(a)    == Num(-a.p, a.q)
NumLess(a, b) == a.p * b.q < b.p * a.q
\* Math.trunc
Trunc(a) == IF a.p >= 0 THEN a.p \div a.q ELSE -((-a.p) \div a.q)
\* The JavaScript remainder: the sign of the dividend, a - b * trunc(a / b).
NumRem(a, b) == NumSub(a, NumMul(b, IntV(Trunc(NumDiv(a, b)))))

(***************************************************************************)
(* JavaScript object primitives: the `in` operator, property read,         *)
(* property assignment, delete, and conversion to a string.                *)
(***************************************************************************)
Digit(d) == <<"0","1","2","3","4","5","6","7","8","9">>[d + 1]

RECURSIVE NatStr(_)
NatStr(n) == IF n < 10 THEN <<Digit(n)>> ELSE NatStr(n \div 10) \o <<Digit(n % 10)>>

\* The fractional digits of r/q (0 <= r < q) by long division, at most d of them.
RECURSIVE FracStr(_, _, _)
FracStr(r, q, d) ==
  IF r = 0 \/ d = 0 THEN <<>>
  ELSE <<Digit((r * 10) \div q)>> \o FracStr((r * 10) % q, q, d - 1)

\* Number.prototype.toString of p/q.
NumStr(n) ==
  LET a == Abs(n.p)
      whole == NatStr(a \div n.q)
      frac == FracStr(a % n.q, n.q, 16)
  IN (IF n.p < 0 THEN <<"-">> ELSE <<>>) \o whole
       \o (IF frac = <<>> THEN <<>> ELSE <<".">> \o frac)

\* The own property names of a list: its indices and "length".
ListOwnKeys(v) == {NatStr(i - 1) : i \in 1..Len(v.l)} \cup {S_length}
ListIndexOf(v, k) == CHOOSE i \in 1..Len(v.l) : NatStr(i - 1) = k

\* k in v, for v an object (the prototype chain is followed; null ends it).
RECURSIVE JsIn(_, _)
JsIn(k, v) ==
  CASE v.t = "obj"        -> k \in DOMAIN v.own \/ JsIn(k, v.proto)
    [] v.t = "list"       -> k \in ListOwnKeys(v) \/ JsIn(k, ArrayProto)
    [] v.t = "arrayproto" -> k \in ArrayPrototypeFns \cup {S_length} \/ JsIn(k, ObjProto)
    [] v.t = "objproto"   -> k \in ObjectPrototypeKeys
    [] v.t = "fn"         -> JsIn(k, ObjProto)
    [] OTHER              -> FALSE

\* Object.getPrototypeOf
ProtoOf(v) ==
  CASE v.t = "obj"        -> v.proto
    [] v.t = "list"       -> ArrayProto
    [] v.t = "arrayproto" -> ObjProto
    [] v.t = "fn"         -> ObjProto
    [] OTHER              -> Null

\* The property k looked up from v on behalf of receiver r.
RECURSIVE JsGetFrom(_, _, _)
JsGetFrom(v, k, r) ==
  CASE v.t = "obj" ->
         IF k \in DOMAIN v.own THEN v.own[k] ELSE JsGetFrom(v.proto, k, r)
    [] v.t = "list" ->
         IF k = S_length THEN IntV(Len(v.l))
         ELSE IF k \in ListOwnKeys(v) THEN v.l[ListIndexOf(v, k)]
         ELSE JsGetFrom(ArrayProto, k, r)
    [] v.t = "arrayproto" ->
         IF k = S_length THEN IntV(0)
         ELSE IF k \in ArrayPrototypeFns THEN Fn("Array", k)
         ELSE JsGetFrom(ObjProto, k, r)
    [] v.t = "objproto" ->
         IF k \in ObjectPrototypeFns THEN Fn("Object", k)
         ELSE IF k = S_proto THEN ProtoOf(r)
         ELSE Undefined
    [] v.t = "fn" -> JsGetFrom(ObjProto, k, r)
    [] OTHER -> Undefined

\* v[k]
JsGet(v, k) == JsGetFrom(v, k, v)

\* Whether an assignment to __proto__ through prototype p reaches the accessor
\* of Object.prototype (an own data property of that name on the way hides it).
RECURSIVE HasProtoAccessor(_)
HasProtoAccessor(p) ==
  CASE p.t = "obj" -> IF S_proto \in DOMAIN p.own THEN FALSE ELSE HasProtoAccessor(p.proto)
    [] p.t \in {"list", "arrayproto", "objproto", "fn"} -> TRUE
    [] OTHER -> FALSE

IsObjectOrNull(v) == v.t \in {"null", "obj", "list", "objproto", "arrayproto", "fn"}

\* o[k] = v for a plain object o.  Assigning __proto__ runs the inherited
\* setter, which replaces the prototype when v is an object or null and does
\* nothing otherwise; every other assignment sets an own property.
JsSet(o, k, v) ==
  IF k = S_proto /\ k \notin DOMAIN o.own /\ HasProtoAccessor(o.proto)
  THEN IF IsObjectOrNull(v) THEN ObjP(o.own, v) ELSE o
  ELSE ObjP([x \in DOMAIN o.own \cup {k} |-> IF x = k THEN v ELSE o.own[x]], o.proto)

\* delete o[k]
JsDelete(o, k) == ObjP([x \in DOMAIN o.own \ {k} |-> o.own[x]], o.proto)

\* { ...o }: a new plain object holding o's own properties.
JsSpread(o) == Obj(o.own)

\* Whether String(v) raises a TypeError: an object whose toString does not
\* resolve to a function cannot be converted to a primitive.
RECURSIVE ToStrThrows(_)
ToStrThrows(v) ==
  CASE v.t = "obj"  -> JsGet(v, S_toString).t # "fn"
    [] v.t = "list" -> \E i \in 1..Len(v.l) : ToStrThrows(v.l[i])
    [] OTHER        -> FALSE

\* The comma-joined strings of a list's elements (null and undefined are empty).
RECURSIVE ToStr(_)
RECURSIVE JoinFrom(_, _)
JoinFrom(l, i) ==
  IF i > Len(l) THEN <<>>
  ELSE (IF i > 1 THEN <<",">> ELSE <<>>)
         \o (IF IsNullish(l[i]) THEN <<>> ELSE ToStr(l[i]))
         \o JoinFrom(l, i + 1)

\* String(v), where it does not raise.
ToStr(v) ==
  CASE v.t = "null"      -> S_null
    [] v.t = "undefined" -> S_undefined
    [] v.t = "bool"      -> IF v.b THEN S_true ELSE S_false
    [] v.t = "num"       -> NumStr(v)
    [] v.t = "str"       -> v.s
    [] v.t = "list"      -> JoinFrom(v.l, 1)
    [] v.t = "arrayproto" -> <<>>
    [] v.t = "fn"        -> S_function \o <<" ">> \o v.name
    [] OTHER             -> S_objectObject

(***************************************************************************)
(* functions/utilities.ts                                                  *)
(***************************************************************************)
\* The outcome of a call: a returned value or a raised error of class cls.
Ok(v) == [k |-> "ok", v |-> v]
Throw(cls, msg) == [k |-> "err", cls |-> cls, msg |-> msg]

T_null    == <<"n","u","l","l">>
T_bool    == <<"b","o","o","l">>
T_int     == <<"i","n","t">>
T_double  == <<"d","o","u","b","l","e">>
T_string  == <<"s","t","r","i","n","g">>
T_list    == <<"l","i","s","t">>
T_map     == <<"m","a","p">>
T_unknown == <<"u","n","k","n","o","w","n">>

\* Number.isInteger
NumberIsInteger(n) == n.q = 1

typeOf(value) ==
  IF IsNullish(value) THEN T_null
  ELSE IF IsBoolean(value) THEN T_bool
  ELSE IF IsNumber(value) THEN (IF NumberIsInteger(value) THEN T_int ELSE T_double)
  ELSE IF IsString(value) THEN T_string
  ELSE IF IsArray(value) THEN T_list
  ELSE IF IsTypeofObject(value) THEN T_map
  ELSE T_unknown

\* Object.keys: the own enumerable property names.
ObjectKeys(v) == IF v.t = "obj" THEN DOMAIN v.own ELSE {}

\* String.prototype.localeCompare on digits and letters: digits before
\* letters, letters in alphabetical order whatever their case, and at the
\* first difference of case only, lower case first.
LowerLetters == <<"a","b","c","d","e","f","g","h","i","j","k","l","m",
                  "n","o","p","q","r","s","t","u","v","w","x","y","z">>
UpperLetters == <<"A","B","C","D","E","F","G","H","I","J","K","L","M",
                  "N","O","P","Q","R","S","T","U","V","W","X","Y","Z">>
Digits == <<"0","1","2","3","4","5","6","7","8","9">>
PosIn(c, seq) == IF \E i \in 1..Len(seq) : seq[i] = c
                 THEN CHOOSE i \in 1..Len(seq) : seq[i] = c ELSE 0
PrimaryRank(c) ==
  IF PosIn(c, Digits) > 0 THEN PosIn(c, Digits)
  ELSE IF PosIn(c, LowerLetters) > 0 THEN 10 + PosIn(c, LowerLetters)
  ELSE IF PosIn(c, UpperLetters) > 0 THEN 10 + PosIn(c, UpperLetters)
  ELSE 0
CaseRank(c) == IF PosIn(c, UpperLetters) > 0 THEN 1 ELSE 0

RECURSIVE RankCompare(_, _, _)
RankCompare(a, b, i) ==
  IF i > Len(a) /\ i > Len(b) THEN 0
  ELSE IF i > Len(a) THEN -1
  ELSE IF i > Len(b) THEN 1
  ELSE IF a[i] < b[i] THEN -1
  ELSE IF a[i] > b[i] THEN 1
  ELSE RankCompare(a, b, i + 1)

localeCompare(a, b) ==
  LET primary == RankCompare([i \in 1..Len(a) |-> PrimaryRank(a[i])],
                             [i \in 1..Len(b) |-> PrimaryRank(b[i])], 1)
  IN IF primary # 0 THEN primary
     ELSE RankCompare([i \in 1..Len(a) |-> CaseRank(a[i])],
                      [i \in 1..Len(b) |-> CaseRank(b[i])], 1)

Min(a, b) == IF a < b THEN a ELSE b

\* compare(a, b): Ok(number), negative, zero or positive, or a raised Error.
RECURSIVE compare(_, _)
RECURSIVE compareFrom(_, _, _)
\* The array branch of compare without the lengths: lists that agree on
\* their common indices compare equal.
RECURSIVE compareFromNoLength(_, _, _)
compareFromNoLength(a, b, i) ==
  IF i > Min(Len(Elems(a)), Len(Elems(b))) THEN Ok(IntV(0))
  ELSE LET cmp == compare(Elems(a)[i], Elems(b)[i])
       IN IF cmp.k = "err" THEN cmp
          ELSE IF ~NumIsZero(cmp.v) THEN cmp
          ELSE compareFromNoLength(a, b, i + 1)

compareFrom(a, b, i) ==
  IF i > Min(Len(Elems(a)), Len(Elems(b)))
  THEN Ok(IntV(Len(Elems(a)) - Len(Elems(b))))
  ELSE LET cmp == compare(Elems(a)[i], Elems(b)[i])
       IN IF cmp.k = "err" THEN cmp
          ELSE IF ~NumIsZero(cmp.v) THEN cmp
          ELSE compareFrom(a, b, i + 1)

compare(a, b) ==
  IF a.t = "null" /\ b.t = "null" THEN Ok(IntV(0))
  ELSE IF a.t = "null" THEN Ok(IntV(-1))
  ELSE IF b.t = "null" THEN Ok(IntV(1))
  ELSE IF IsNumber(a) /\ IsNumber(b) THEN Ok(NumSub(a, b))
  ELSE IF IsString(a) /\ IsString(b) THEN Ok(IntV(localeCompare(a.s, b.s)))
  ELSE IF IsBoolean(a) /\ IsBoolean(b)
       THEN Ok(IntV(IF a.b = b.b THEN 0 ELSE IF a.b THEN 1 ELSE -1))
  ELSE IF IsArray(a) /\ IsArray(b) THEN compareFrom(a, b, 1)
  ELSE Throw("Error", "Cannot compare types")

\* left === right for two values that are not both objects or both lists:
\* what is not a number equals nothing, itself included.
StrictEquals(left, right) == left = right /\ left # NaN

RECURSIVE deepEquals(_, _)
deepEquals(left, right) ==
  IF IsNullish(left) \/ IsNullish(right) THEN left = right
  ELSE IF IsArray(left) /\ IsArray(right) THEN
    /\ Len(Elems(left)) = Len(Elems(right))
    /\ \A i \in 1..Len(Elems(left)) : deepEquals(Elems(left)[i], Elems(right)[i])
  ELSE IF /\ IsTypeofObject(left) /\ IsTypeofObject(right)
          /\ ~IsArray(left) /\ ~IsArray(right) THEN
    /\ Cardinality(ObjectKeys(left)) = Cardinality(ObjectKeys(right))
    /\ \A key \in ObjectKeys(left) :
         /\ JsIn(key, right)
         /\ deepEquals(JsGet(left, key), JsGet(right, key))
  ELSE IF IsNumber(left) /\ IsNumber(right) THEN StrictEquals(left, right)
  ELSE StrictEquals(left, right)

containsInArray(array, value) ==
  \E i \in 1..Len(Elems(array)) : deepEquals(Elems(array)[i], value)

sizeOf(value) ==
  IF IsNullish(value) THEN Ok(IntV(0))
  ELSE IF IsString(value) THEN Ok(IntV(Len(value.s)))
  ELSE IF IsArray(value) THEN Ok(IntV(Len(Elems(value))))
  ELSE IF IsTypeofObject(value) THEN Ok(IntV(Cardinality(ObjectKeys(value))))
  ELSE Throw("Error", "size() not supported for type")

has(target, field) ==
  IF IsTypeofObject(target) /\ target.t # "null" /\ IsString(field)
  THEN JsIn(field.s, target) ELSE FALSE

(***************************************************************************)
(* ast/index.ts: the expression nodes.                                     *)
(***************************************************************************)
NoExpr == [k |-> "null"]
Literal(value, literalType) == [k |-> "Literal", value |-> value, literalType |-> literalType]
Identifier(name) == [k |-> "Identifier", name |-> name]
Select(operand, field, isTest) ==
  [k |-> "Select", operand |-> operand, field |-> field, isTest |-> isTest]
Index(operand, index) == [k |-> "Index", operand |-> operand, index |-> index]
Call(target, functionName, args, isMacro) ==
  [k |-> "Call", target |-> target, functionName |-> functionName,
   args |-> args, isMacro |-> isMacro]
ListExpression(elements) == [k |-> "List", elements |-> elements]
MapEntry(key, value) == [key |-> key, value |-> value]
MapExpression(entries) == [k |-> "Map", entries |-> entries]
FieldInitializer(field, value) == [field |-> field, value |-> value]
Struct(typeName, fields) == [k |-> "Struct", typeName |-> typeName, fields |-> fields]
Comprehension(variable, range, accumulator, initializer, condition, step, result) ==
  [k |-> "Comprehension", variable |-> variable, range |-> range,
   accumulator |-> accumulator, initializer |-> initializer,
   condition |-> condition, step |-> step, result |-> result]
Unary(op, operand) == [k |-> "Unary", op |-> op, operand |-> operand]
Binary(op, left, right) == [k |-> "Binary", op |-> op, left |-> left, right |-> right]
Conditional(condition, thenExpr, otherwiseExpr) ==
  [k |-> "Conditional", condition |-> condition, thenExpr |-> thenExpr,
   otherwiseExpr |-> otherwiseExpr]

(***************************************************************************)
(* functions/standard-functions.ts: the default Function Registry.         *)
(* A registry call yields an outcome and the target as the call leaves it  *)
(* (a native method such as push changes its target in place).             *)
(***************************************************************************)
S_size == <<"s","i","z","e">>
S_type == <<"t","y","p","e">>
S_has  == <<"h","a","s">>
S_contains == <<"c","o","n","t","a","i","n","s">>

RECURSIVE Includes(_, _, _)
\* Whether needle occurs in hay at position i or later.
Includes(hay, needle, i) ==
  IF i + Len(needle) - 1 > Len(hay) THEN FALSE
  ELSE IF SubSeq(hay, i, i + Len(needle) - 1) = needle THEN TRUE
  ELSE Includes(hay, needle, i + 1)
StringIncludes(hay, needle) == Includes(hay, needle, 1)

callFunction(name, args) ==
  IF name = S_size THEN sizeOf(IF Len(args) > 0 THEN args[1] ELSE Undefined)
  ELSE IF name = S_type THEN Ok(Str(typeOf(IF Len(args) > 0 THEN args[1] ELSE Undefined)))
  ELSE IF name = S_has THEN
    IF Len(args) # 2 THEN Throw("Error", "has() requires 2 arguments")
    ELSE Ok(Bool(has(args[1], args[2])))
  ELSE Throw("Error", "Unknown function")

\* The native methods the model knows: Array.prototype.push, and toString and
\* valueOf, which every value has.
callNativeMethod(target, name, args) ==
  IF name = S_push /\ target.t = "list"
  THEN [out |-> Ok(IntV(Len(target.l) + Len(args))), target |-> List(target.l \o args)]
  ELSE IF name = S_toString /\ (target.t # "obj" \/ JsGet(target, name).t = "fn")
  THEN [out |-> Ok(Str(ToStr(target))), target |-> target]
  ELSE IF name = S_valueOf /\ (target.t # "obj" \/ JsGet(target, name).t = "fn")
  THEN [out |-> Ok(target), target |-> target]
  ELSE [out |-> Throw("Error", "No such method"), target |-> target]

callMethod(target, method, args) ==
  IF IsNullish(target)
  THEN [out |-> Throw("Error", "Cannot call method on null"), target |-> target]
  ELSE IF method = S_contains THEN
    [out |-> IF IsString(target) /\ Len(args) = 1 /\ IsString(args[1])
             THEN Ok(Bool(StringIncludes(target.s, args[1].s)))
             ELSE IF IsArray(target) /\ Len(args) = 1
             THEN Ok(Bool(\E i \in 1..Len(Elems(target)) :
                            /\ Elems(target)[i] = args[1]
                            /\ args[1].t \notin {"list", "obj"}))
             ELSE Throw("Error", "Invalid arguments for contains()"),
     target |-> target]
  ELSE IF method = S_size THEN [out |-> sizeOf(target), target |-> target]
  ELSE IF method \in {S_map, S_filter, S_all, S_exists, S_existsOne} THEN
    [out |-> Throw("EvaluationError", "Macro function was not properly handled"),
     target |-> target]
  ELSE callNativeMethod(target, method, args)

(***************************************************************************)
(* interpreter/index.ts: the Interpreter.                                  *)
(*                                                                         *)
(* Eval(e, at, st) is expr.accept(this) for the node e found at path `at`  *)
(* of the tree under evaluation.  The state st that an evaluation threads  *)
(* is this.variables (env) together with three records kept for the        *)
(* properties: tr, the events of the evaluation in order; sh, the names    *)
(* that a running macro or comprehension has rebound; mut, the host-bound  *)
(* lists that a native method changed in place, by name.                   *)
(***************************************************************************)
Ret(v, st) == [k |-> "ok", v |-> v, st |-> st]
Thr(cls, msg, st) == [k |-> "err", cls |-> cls, msg |-> msg, st |-> st]
\* The outcome `out` of a utility or registry call, in state st.
Lift(out, st) == IF out.k = "ok" THEN Ret(out.v, st) ELSE Thr(out.cls, out.msg, st)
\* A raised result r as it passes through a frame that leaves the state at st.
Rethrow(r, st) == Thr(r.cls, r.msg, st)
Log(st, event) == [st EXCEPT !.tr = Append(@, event)]
WithEnv(st, env) == [st EXCEPT !.env = env]

VisitEvent(at, e) ==
  [ev |-> "visit", at |-> at, kind |-> e.k,
   op |-> IF e.k \in {"Unary", "Binary"} THEN e.op ELSE ""]
\* What the visit of the node at path `at` ended with: a value or a raised error.
ExitEvent(at, r) ==
  [ev |-> "exit", at |-> at, k |-> r.k,
   v |-> IF r.k = "ok" THEN r.v ELSE [t |-> "error", cls |-> r.cls, msg |-> r.msg]]

\* String.prototype.repeat and the list repetition loop run for these counts.
RECURSIVE Repeat(_, _)
Repeat(seq, n) == IF n <= 0 THEN <<>> ELSE seq \o Repeat(seq, n - 1)
\* The least integer not below a: the number of i = 0, 1, ... with i < a.
Ceil(a) == IF a.q = 1 THEN a.p ELSE IF a.p > 0 THEN (a.p \div a.q) + 1 ELSE 0

RECURSIVE Eval(_, _, _)
RECURSIVE EvalSeq(_, _, _, _, _, _)
RECURSIVE visitMapFrom(_, _, _, _, _)
RECURSIVE visitStructFrom(_, _, _, _, _)
RECURSIVE MacroLoop(_, _, _, _, _, _, _, _, _)
RECURSIVE ComprehensionLoop(_, _, _, _, _, _)

\* Evaluates exprs[i..] in order at paths label1, label2, ...; the result's
\* value is the list of the values.
EvalSeq(exprs, i, label, at, acc, st) ==
  IF i > Len(exprs) THEN Ret(acc, st)
  ELSE LET r == Eval(exprs[i], Append(at, label \o ToString(i)), st)
       IN IF r.k = "err" THEN r
          ELSE EvalSeq(exprs, i + 1, label, at, Append(acc, r.v), r.st)

visitLiteral(expr, at, st) == Ret(expr.value, st)

visitIdentifier(expr, at, st) ==
  IF ~JsIn(expr.name, st.env)
  THEN Thr("EvaluationError", "Undefined variable", st)
  ELSE Ret(JsGet(st.env, expr.name), st)

visitSelect(expr, at, st) ==
  LET t == IF expr.operand # NoExpr THEN Eval(expr.operand, Append(at, "operand"), st)
           ELSE Ret(st.env, st)
  IN IF t.k = "err" THEN t
     ELSE LET target == t.v
          IN IF IsNullish(target) THEN
               IF expr.isTest THEN Ret(Bool(FALSE), t.st)
               ELSE Thr("EvaluationError", "Cannot select field from null", t.st)
             ELSE IF IsTypeofObject(target) THEN
               IF expr.isTest THEN Ret(Bool(JsIn(expr.field, target)), t.st)
               ELSE IF ~JsIn(expr.field, target)
               THEN Thr("EvaluationError", "Field not found", t.st)
               ELSE Ret(JsGet(target, expr.field), t.st)
             ELSE Thr("EvaluationError", "Cannot select field from non-object type", t.st)

\* The finally block of evaluateMacro.
MacroRestore(env, variableName, had, saved) ==
  IF had THEN JsSet(env, variableName, saved) ELSE JsDelete(env, variableName)

\* The loop of one macro in which only the macros named in `stops` return
\* before the end of the list; count is then the number of predicates that
\* were true (exists, existsOne) or were not (all).
RECURSIVE MacroLoopStopping(_, _, _, _, _, _, _, _, _, _)
MacroLoopStopping(stops, functionName, target, i, variableName, expr, at, acc, count, st) ==
  IF i > Len(target) THEN
    Ret(CASE functionName \in {S_map, S_filter} -> List(acc)
          [] functionName = S_all -> Bool(count = 0)
          [] functionName = S_exists -> Bool(count > 0)
          [] OTHER -> Bool(count = 1), st)
  ELSE
    LET item == target[i]
        bound == Log(WithEnv(st, JsSet(st.env, variableName, item)),
                     [ev |-> "iterate", at |-> at, i |-> i, item |-> item])
        r == Eval(expr, Append(at, "arg2"), bound)
        isTrue == r.v = Bool(TRUE)
        counts == IF functionName = S_all THEN ~isTrue ELSE isTrue
    IN IF r.k = "err" THEN r
       ELSE IF /\ functionName \in stops
               /\ \/ functionName = S_all /\ ~isTrue
                  \/ functionName = S_exists /\ isTrue
                  \/ functionName = S_existsOne /\ isTrue /\ count + 1 > 1
       THEN Ret(Bool(functionName = S_exists), r.st)
       ELSE MacroLoopStopping(stops, functionName, target, i + 1, variableName, expr, at,
                              CASE functionName = S_map -> Append(acc, r.v)
                                [] functionName = S_filter /\ isTrue -> Append(acc, item)
                                [] OTHER -> acc,
                              IF counts THEN count + 1 ELSE count, r.st)

\* The loop in which existsOne goes on to the end of the list after the
\* second true predicate.
MacroLoopCountsAll(functionName, target, i, variableName, expr, at, acc, count, st) ==
  MacroLoopStopping({S_all, S_exists}, functionName, target, i, variableName, expr, at,
                    acc, count, st)

\* The loop in which all and exists go on to the end of the list.
MacroLoopToTheEnd(functionName, target, i, variableName, expr, at, acc, count, st) ==
  MacroLoopStopping({S_existsOne}, functionName, target, i, variableName, expr, at,
                    acc, count, st)

\* The loop of one macro over target[i..]: results so far in acc, the number
\* of true predicates so far in count.
MacroLoop(functionName, target, i, variableName, expr, at, acc, count, st) ==
  IF i > Len(target) THEN
    Ret(CASE functionName \in {S_map, S_filter} -> List(acc)
          [] functionName = S_all -> Bool(TRUE)
          [] functionName = S_exists -> Bool(FALSE)
          [] OTHER -> Bool(count = 1), st)
  ELSE
    LET item == target[i]
        bound == Log(WithEnv(st, JsSet(st.env, variableName, item)),
                     [ev |-> "iterate", at |-> at, i |-> i, item |-> item])
        r == Eval(expr, Append(at, "arg2"), bound)
    IN IF r.k = "err" THEN r
       ELSE LET isTrue == r.v = Bool(TRUE)
            IN CASE functionName = S_map ->
                      MacroLoop(functionName, target, i + 1, variableName, expr, at,
                                Append(acc, r.v), count, r.st)
                 [] functionName = S_filter ->
                      MacroLoop(functionName, target, i + 1, variableName, expr, at,
                                IF isTrue THEN Append(acc, item) ELSE acc, count, r.st)
                 [] functionName = S_all ->
                      IF ~isTrue THEN Ret(Bool(FALSE), r.st)
                      ELSE MacroLoop(functionName, target, i + 1, variableName, expr, at,
                                     acc, count, r.st)
                 [] functionName = S_exists ->
                      IF isTrue THEN Ret(Bool(TRUE), r.st)
                      ELSE MacroLoop(functionName, target, i + 1, variableName, expr, at,
                                     acc, count, r.st)
                 [] OTHER ->
                      IF isTrue /\ count + 1 > 1 THEN Ret(Bool(FALSE), r.st)
                      ELSE MacroLoop(functionName, target, i + 1, variableName, expr, at,
                                     acc, IF isTrue THEN count + 1 ELSE count, r.st)

MacroNames == {S_map, S_filter, S_all, S_exists, S_existsOne}

\* The try block of evaluateMacro ended with `body`, by a return or by an
\* exception: the finally block runs on the environment it left, and the
\* environment before and after the call is recorded.
MacroFinally(body, variableName, had, saved, at, st) ==
  LET restored == [body.st EXCEPT
                     !.env = MacroRestore(@, variableName, had, saved),
                     !.sh = st.sh]
      after == Log(restored, [ev |-> "macro", at |-> at, name |-> variableName,
                              before |-> st.env, after |-> restored.env,
                              exit |-> body.k])
  IN IF body.k = "err" THEN Rethrow(body, after) ELSE Ret(body.v, after)

evaluateMacro(target, functionName, variableName, expr, at, st) ==
  IF ~IsArray(target) THEN Thr("EvaluationError", "Macro requires a list target", st)
  ELSE
    LET inner == [st EXCEPT !.sh = @ \cup {variableName}]
    IN MacroFinally(IF functionName \in MacroNames
                    THEN MacroLoop(functionName, Elems(target), 1, variableName, expr, at,
                                   <<>>, 0, inner)
                    ELSE Thr("EvaluationError", "Unknown macro function", inner),
                    variableName, JsIn(variableName, st.env), JsGet(st.env, variableName),
                    at, st)

\* this.functions.callMethod(target, expr.functionName, args) ended with c.
\* When a native method changed the list in place, the list is the one the
\* target identifier is bound to, and the host's own unless a macro has
\* rebound that name.
MethodCalled(c, expr, at, target, args, st) ==
  LET called == Log(st, [ev |-> "callMethod", at |-> at, target |-> target,
                         name |-> expr.functionName, args |-> args])
      name == expr.target.name
      changed ==
        IF c.target = target \/ expr.target.k # "Identifier"
           \/ name \notin DOMAIN called.env.own
        THEN called
        ELSE [called EXCEPT
                !.env = ObjP([x \in DOMAIN @.own |->
                               IF x = name THEN c.target ELSE @.own[x]],
                             @.proto),
                !.mut = IF name \in called.sh THEN @
                        ELSE [x \in DOMAIN @ \cup {name} |->
                               IF x = name THEN c.target ELSE @[x]]]
  IN Lift(c.out, changed)

\* visitCall that evaluates the first argument only and hands the
\* registry that one value.
visitCallFirstArgument(expr, at, st) ==
  IF expr.isMacro /\ expr.target # NoExpr THEN
    LET t == Eval(expr.target, Append(at, "target"), st)
    IN IF t.k = "err" THEN t
       ELSE IF Len(expr.args) = 0
       THEN Thr("EvaluationError", "Macro requires arguments", t.st)
       ELSE IF expr.args[1].k # "Identifier"
       THEN Thr("EvaluationError", "First argument to macro must be a variable name", t.st)
       ELSE IF Len(expr.args) < 2
       THEN Thr("EvaluationError", "Macro requires an expression argument", t.st)
       ELSE evaluateMacro(t.v, expr.functionName, expr.args[1].name, expr.args[2], at, t.st)
  ELSE
    LET a == EvalSeq(SubSeq(expr.args, 1, Min(1, Len(expr.args))), 1, "arg", at, <<>>, st)
    IN IF a.k = "err" THEN a
       ELSE IF expr.target # NoExpr THEN
         LET t == Eval(expr.target, Append(at, "target"), a.st)
         IN IF t.k = "err" THEN t
            ELSE MethodCalled(callMethod(t.v, expr.functionName, a.v), expr, at, t.v, a.v,
                              t.st)
       ELSE Lift(callFunction(expr.functionName, a.v),
                 Log(a.st, [ev |-> "callFunction", at |-> at,
                            name |-> expr.functionName, args |-> a.v]))

visitCall(expr, at, st) ==
  IF expr.isMacro /\ expr.target # NoExpr THEN
    LET t == Eval(expr.target, Append(at, "target"), st)
    IN IF t.k = "err" THEN t
       ELSE IF Len(expr.args) = 0
       THEN Thr("EvaluationError", "Macro requires arguments", t.st)
       ELSE IF expr.args[1].k # "Identifier"
       THEN Thr("EvaluationError", "First argument to macro must be a variable name", t.st)
       ELSE IF Len(expr.args) < 2
       THEN Thr("EvaluationError", "Macro requires an expression argument", t.st)
       ELSE evaluateMacro(t.v, expr.functionName, expr.args[1].name, expr.args[2], at, t.st)
  ELSE
    LET a == EvalSeq(expr.args, 1, "arg", at, <<>>, st)
    IN IF a.k = "err" THEN a
       ELSE IF expr.target # NoExpr THEN
         LET t == Eval(expr.target, Append(at, "target"), a.st)
         IN IF t.k = "err" THEN t
            ELSE MethodCalled(callMethod(t.v, expr.functionName, a.v), expr, at, t.v, a.v,
                              t.st)
       ELSE Lift(callFunction(expr.functionName, a.v),
                 Log(a.st, [ev |-> "callFunction", at |-> at,
                            name |-> expr.functionName, args |-> a.v]))

visitList(expr, at, st) ==
  LET r == EvalSeq(expr.elements, 1, "element", at, <<>>, st)
  IN IF r.k = "err" THEN r ELSE Ret(List(r.v), r.st)

\* map[key] = value: the key is converted to a property name.
visitMapFrom(entries, i, at, map, st) ==
  IF i > Len(entries) THEN Ret(map, st)
  ELSE LET key == Eval(entries[i].key, Append(at, "key" \o ToString(i)), st)
       IN IF key.k = "err" THEN key
          ELSE LET value == Eval(entries[i].value, Append(at, "value" \o ToString(i)), key.st)
               IN IF value.k = "err" THEN value
                  ELSE IF ToStrThrows(key.v)
                  THEN Thr("TypeError", "Cannot convert object to primitive value", value.st)
                  ELSE visitMapFrom(entries, i + 1, at,
                                    JsSet(map, ToStr(key.v), value.v), value.st)

visitMap(expr, at, st) == visitMapFrom(expr.entries, 1, at, Obj(EmptyOwn), st)

visitStructFrom(fields, i, at, map, st) ==
  IF i > Len(fields) THEN Ret(map, st)
  ELSE LET value == Eval(fields[i].value, Append(at, "value" \o ToString(i)), st)
       IN IF value.k = "err" THEN value
          ELSE visitStructFrom(fields, i + 1, at, JsSet(map, fields[i].field, value.v),
                               value.st)

visitStruct(expr, at, st) == visitStructFrom(expr.fields, 1, at, Obj(EmptyOwn), st)

\* The loop of visitComprehension over range[i..].
ComprehensionLoop(expr, range, i, at, accumulator, st) ==
  IF i > Len(range) THEN Eval(expr.result, Append(at, "result"), st)
  ELSE
    LET bound == WithEnv(st, JsSet(st.env, expr.variable, range[i]))
        condition == Eval(expr.condition, Append(at, "condition"), bound)
    IN IF condition.k = "err" THEN condition
       ELSE IF condition.v # Bool(TRUE)
       THEN ComprehensionLoop(expr, range, i + 1, at, accumulator, condition.st)
       ELSE LET step == Eval(expr.step, Append(at, "step"), condition.st)
            IN IF step.k = "err" THEN step
               ELSE ComprehensionLoop(expr, range, i + 1, at, step.v,
                      WithEnv(step.st, JsSet(step.st.env, expr.accumulator, step.v)))

\* The try block of visitComprehension ended with `body`: the finally block
\* restores the iteration variable and the accumulator variable in s0's
\* environment as the try block left it.
ComprehensionFinally(body, expr, at, s0) ==
  LET restored ==
        [body.st EXCEPT
           !.env = MacroRestore(
                     MacroRestore(@, expr.variable, JsIn(expr.variable, s0.env),
                                  JsGet(s0.env, expr.variable)),
                     expr.accumulator, JsIn(expr.accumulator, s0.env),
                     JsGet(s0.env, expr.accumulator)),
           !.sh = s0.sh]
      after == Log(restored, [ev |-> "macro", at |-> at, name |-> expr.variable,
                              before |-> s0.env, after |-> restored.env,
                              exit |-> body.k])
  IN IF body.k = "err" THEN Rethrow(body, after) ELSE Ret(body.v, after)

visitComprehension(expr, at, st) ==
  LET range == Eval(expr.range, Append(at, "range"), st)
  IN IF range.k = "err" THEN range
     ELSE IF ~IsArray(range.v)
     THEN Thr("EvaluationError", "Comprehension range must be a list", range.st)
     ELSE
       LET inner == [range.st EXCEPT !.sh = @ \cup {expr.variable, expr.accumulator}]
           init == Eval(expr.initializer, Append(at, "initializer"), inner)
       IN ComprehensionFinally(
            IF init.k = "err" THEN init
            ELSE ComprehensionLoop(expr, Elems(range.v), 1, at, init.v,
                   WithEnv(init.st, JsSet(init.st.env, expr.accumulator, init.v))),
            expr, at, range.st)

visitUnary(expr, at, st) ==
  LET o == Eval(expr.operand, Append(at, "operand"), st)
  IN IF o.k = "err" THEN o
     ELSE CASE expr.op = "NOT" ->
                 IF ~IsBoolean(o.v)
                 THEN Thr("EvaluationError", "NOT operator requires boolean operand", o.st)
                 ELSE Ret(Bool(~o.v.b), o.st)
            [] expr.op = "NEGATE" ->
                 IF ~IsNumber(o.v)
                 THEN Thr("EvaluationError", "Negation requires numeric operand", o.st)
                 ELSE Ret(NumNeg(o.v), o.st)
            [] OTHER -> Thr("EvaluationError", "Unknown unary operator", o.st)

\* The logical cases of visitBinary with the right operand evaluated before
\* the left one is tested.
visitBinaryLogicalEager(expr, at, st) ==
  LET left == Eval(expr.left, Append(at, "left"), st)
  IN IF left.k = "err" THEN left
     ELSE LET right == Eval(expr.right, Append(at, "right"), left.st)
          IN IF right.k = "err" THEN right
             ELSE IF expr.op = "LOGICAL_AND"
             THEN Ret(Bool(left.v = Bool(TRUE) /\ right.v = Bool(TRUE)), right.st)
             ELSE Ret(Bool(left.v = Bool(TRUE) \/ right.v = Bool(TRUE)), right.st)

\* The logical cases of visitBinary.
visitBinaryLogical(expr, at, st) ==
  LET left == Eval(expr.left, Append(at, "left"), st)
  IN IF left.k = "err" THEN left
     ELSE IF expr.op = "LOGICAL_AND" THEN
       IF left.v # Bool(TRUE) THEN Ret(Bool(FALSE), left.st)
       ELSE LET right == Eval(expr.right, Append(at, "right"), left.st)
            IN IF right.k = "err" THEN right
               ELSE Ret(Bool(right.v = Bool(TRUE)), right.st)
     ELSE
       IF left.v = Bool(TRUE) THEN Ret(Bool(TRUE), left.st)
       ELSE LET right == Eval(expr.right, Append(at, "right"), left.st)
            IN IF right.k = "err" THEN right
               ELSE Ret(Bool(right.v = Bool(TRUE)), right.st)

\* What JavaScript's left / 0 yields for a non-zero left: an infinity.
Infinity == [t |-> "num", p |-> 1, q |-> 0]

\* case BinaryOp.DIVIDE with the zero test left out.
DivideOperationUnchecked(left, right) ==
  IF IsNumber(left) /\ IsNumber(right) THEN
    IF NumIsZero(right) THEN Ok(Infinity)
    ELSE Ok(NumDiv(left, right))
  ELSE Throw("EvaluationError", "Division requires numeric operands")

\* case BinaryOp.DIVIDE of visitBinary.
DivideOperation(left, right) ==
  IF IsNumber(left) /\ IsNumber(right) THEN
    IF NumIsZero(right) THEN Throw("EvaluationError", "Division by zero")
    ELSE Ok(NumDiv(left, right))
  ELSE Throw("EvaluationError", "Division requires numeric operands")

\* case BinaryOp.MODULO of visitBinary.
ModuloOperation(left, right) ==
  IF IsNumber(left) /\ IsNumber(right) THEN
    IF NumIsZero(right) THEN Throw("EvaluationError", "Modulo by zero")
    ELSE Ok(NumRem(left, right))
  ELSE Throw("EvaluationError", "Modulo requires integer operands")

\* The four ordering cases of visitBinary on the outcome c of compare; every
\* comparison of what is not a number with 0 is false.
RelationalOperation(op, c) ==
  IF c.k = "err" THEN c
  ELSE Ok(Bool(CASE c.v.p = 0 /\ c.v.q = 0 -> FALSE
                 [] op = "LESS" -> c.v.p < 0
                 [] op = "LESS_EQUAL" -> c.v.p <= 0
                 [] op = "GREATER" -> c.v.p > 0
                 [] OTHER -> c.v.p >= 0))

\* The switch of visitBinary on two evaluated operands.
BinaryOperation(op, left, right) ==
  CASE op = "ADD" ->
         IF IsString(left) \/ IsString(right) THEN
           IF ToStrThrows(left) \/ ToStrThrows(right)
           THEN Throw("TypeError", "Cannot convert object to primitive value")
           ELSE Ok(Str(ToStr(left) \o ToStr(right)))
         ELSE IF IsArray(left) /\ IsArray(right) THEN Ok(List(Elems(left) \o Elems(right)))
         ELSE IF IsNumber(left) /\ IsNumber(right) THEN Ok(NumAdd(left, right))
         ELSE Throw("EvaluationError", "Invalid operands for addition")
    [] op = "SUBTRACT" ->
         IF IsNumber(left) /\ IsNumber(right) THEN Ok(NumSub(left, right))
         ELSE Throw("EvaluationError", "Subtraction requires numeric operands")
    [] op = "MULTIPLY" ->
         IF IsNumber(left) /\ IsNumber(right) THEN Ok(NumMul(left, right))
         ELSE IF IsString(left) /\ IsNumber(right) THEN
           IF Trunc(right) < 0 THEN Throw("RangeError", "Invalid count value")
           ELSE Ok(Str(Repeat(left.s, Trunc(right))))
         ELSE IF IsArray(left) /\ IsNumber(right)
         THEN Ok(List(Repeat(Elems(left), Ceil(right))))
         ELSE Throw("EvaluationError", "Invalid operands for multiplication")
    [] op = "DIVIDE" -> DivideOperation(left, right)
    [] op = "MODULO" -> ModuloOperation(left, right)
    [] op = "EQUAL" -> Ok(Bool(deepEquals(left, right)))
    [] op = "NOT_EQUAL" -> Ok(Bool(~deepEquals(left, right)))
    [] op \in {"LESS", "LESS_EQUAL", "GREATER", "GREATER_EQUAL"} ->
         RelationalOperation(op, compare(left, right))
    [] op = "IN" ->
         IF IsArray(right) THEN Ok(Bool(containsInArray(right, left)))
         ELSE IF IsTypeofObject(right) /\ right.t # "null" THEN
           IF ToStrThrows(left)
           THEN Throw("TypeError", "Cannot convert object to primitive value")
           ELSE Ok(Bool(JsIn(ToStr(left), right)))
         ELSE IF IsString(right) /\ IsString(left)
         THEN Ok(Bool(StringIncludes(right.s, left.s)))
         ELSE Throw("EvaluationError", "IN operator requires list, map, or string on right side")
    [] OTHER -> Throw("EvaluationError", "Unknown binary operator")

visitBinary(expr, at, st) ==
  IF expr.op \in {"LOGICAL_AND", "LOGICAL_OR"} THEN visitBinaryLogical(expr, at, st)
  ELSE
    LET left == Eval(expr.left, Append(at, "left"), st)
    IN IF left.k = "err" THEN left
       ELSE LET right == Eval(expr.right, Append(at, "right"), left.st)
            IN IF right.k = "err" THEN right
               ELSE Lift(BinaryOperation(expr.op, left.v, right.v), right.st)

\* visitConditional with both branches evaluated before one is selected.
visitConditionalEager(expr, at, st) ==
  LET condition == Eval(expr.condition, Append(at, "condition"), st)
  IN IF condition.k = "err" THEN condition
     ELSE LET thenR == Eval(expr.thenExpr, Append(at, "thenExpr"), condition.st)
          IN IF thenR.k = "err" THEN thenR
             ELSE LET elseR == Eval(expr.otherwiseExpr, Append(at, "otherwiseExpr"), thenR.st)
                  IN IF elseR.k = "err" THEN elseR
                     ELSE IF condition.v = Bool(TRUE) THEN Ret(thenR.v, elseR.st)
                     ELSE elseR

visitConditional(expr, at, st) ==
  LET condition == Eval(expr.condition, Append(at, "condition"), st)
  IN IF condition.k = "err" THEN condition
     ELSE IF condition.v = Bool(TRUE)
     THEN Eval(expr.thenExpr, Append(at, "thenExpr"), condition.st)
     ELSE Eval(expr.otherwiseExpr, Append(at, "otherwiseExpr"), condition.st)

\* The body of visitIndex on an evaluated operand and index.
IndexOperation(operand, index) ==
  IF IsNullish(operand) THEN Throw("EvaluationError", "Cannot index null value")
  ELSE IF IsArray(operand) THEN
    IF ~IsNumber(index) THEN Throw("EvaluationError", "List index must be an integer")
    ELSE LET idx == Trunc(index)
         IN IF idx < 0 \/ idx >= Len(Elems(operand))
            THEN Throw("EvaluationError", "List index out of bounds")
            ELSE Ok(Elems(operand)[idx + 1])
  ELSE IF IsTypeofObject(operand) THEN
    IF ToStrThrows(index)
    THEN Throw("TypeError", "Cannot convert object to primitive value")
    ELSE IF ~JsIn(ToStr(index), operand)
    THEN Throw("EvaluationError", "Map key not found")
    ELSE Ok(JsGet(operand, ToStr(index)))
  ELSE IF IsString(operand) THEN
    IF ~IsNumber(index) THEN Throw("EvaluationError", "String index must be an integer")
    ELSE LET idx == Trunc(index)
         IN IF idx < 0 \/ idx >= Len(operand.s)
            THEN Throw("EvaluationError", "String index out of bounds")
            ELSE Ok(Str(<<operand.s[idx + 1]>>))
  ELSE Throw("EvaluationError", "Cannot index type")

visitIndex(expr, at, st) ==
  LET operand == Eval(expr.operand, Append(at, "operand"), st)
  IN IF operand.k = "err" THEN operand
     ELSE LET index == Eval(expr.index, Append(at, "index"), operand.st)
          IN IF index.k = "err" THEN index
             ELSE Lift(IndexOperation(operand.v, index.v), index.st)

\* The visit of the node at path `at` ended with r.
Exit(at, r) == [r EXCEPT !.st = Log(@, ExitEvent(at, r))]

\* expr.accept(this): the visit of node e and its outcome are recorded
\* around the dispatch.
Eval(e, at, st) ==
  LET s1 == Log(st, VisitEvent(at, e))
  IN Exit(at,
          CASE e.k = "Literal"       -> visitLiteral(e, at, s1)
            [] e.k = "Identifier"    -> visitIdentifier(e, at, s1)
            [] e.k = "Select"        -> visitSelect(e, at, s1)
            [] e.k = "Index"         -> visitIndex(e, at, s1)
            [] e.k = "Call"          -> visitCall(e, at, s1)
            [] e.k = "List"          -> visitList(e, at, s1)
            [] e.k = "Map"           -> visitMap(e, at, s1)
            [] e.k = "Struct"        -> visitStruct(e, at, s1)
            [] e.k = "Comprehension" -> visitComprehension(e, at, s1)
            [] e.k = "Unary"         -> visitUnary(e, at, s1)
            [] e.k = "Binary"        -> visitBinary(e, at, s1)
            [] OTHER                 -> visitConditional(e, at, s1))

\* What the host's variables object holds after the native methods recorded
\* in mut changed lists it holds.
HostAfter(host, mut) ==
  ObjP([x \in DOMAIN host.own |-> IF x \in DOMAIN mut THEN mut[x] ELSE host.own[x]],
       host.proto)

\* The state in which an Interpreter constructed on `variables` starts.
StartState(variables) ==
  [env |-> variables, tr |-> <<>>, sh |-> {}, mut |-> [x \in {} |-> Null]]

\* Interpreter.evaluate(expr) of a new Interpreter(variables).
InterpreterEvaluate(variables, expr) == Eval(expr, <<>>, StartState(variables))

(***************************************************************************)
(* program.ts: Program.evaluate.                                           *)
(***************************************************************************)
\* The variables object that Program.evaluate hands to its Interpreter:
\* shared tells whether it is the caller's own object.
ProgramVariables(variables) == [env |-> JsSpread(variables), shared |-> FALSE]

\* Program.evaluate(variables) on the tree ast.  host is the caller's object
\* as the call leaves it: the Interpreter's environment when the caller's
\* object is that environment, and otherwise the caller's object with the
\* lists it holds as native methods left them.
ProgramReturn(r, own, variables) ==
  [r |-> r,
   host |-> IF own.shared THEN r.st.env ELSE HostAfter(variables, r.st.mut)]

ProgramEvaluateCall(tree, variables) ==
  LET own == ProgramVariables(variables)
  IN ProgramReturn(InterpreterEvaluate(own.env, tree), own, variables)

(***************************************************************************)
(* The Lexer.  An input is a sequence of one-character strings; a lexer    *)
(* state ls holds the fields position, line and column.  A private method  *)
(* returns [k |-> "ok", tok, ls] or, when it throws a ParseError,          *)
(* [k |-> "err", msg, line, column, ls], ls being the fields as the call   *)
(* leaves them.                                                            *)
(***************************************************************************)
Token(type, value, line, column) ==
  [type |-> type, value |-> value, line |-> line, column |-> column]

LexOk(tok, ls) == [k |-> "ok", tok |-> tok, ls |-> ls]
ParseError(msg, line, column, ls) ==
  [k |-> "err", cls |-> "ParseError", msg |-> msg, line |-> line, column |-> column,
   ls |-> ls]

\* input[pos], undefined past the end.
CharAt(input, pos) == IF pos >= 0 /\ pos < Len(input) THEN input[pos + 1] ELSE "undefined"
\* input.substring(from, to)
Substring(input, from, to) == SubSeq(input, from + 1, Min(to, Len(input)))

DigitChars == {"0","1","2","3","4","5","6","7","8","9"}
HexDigitChars == DigitChars \cup {"a","b","c","d","e","f","A","B","C","D","E","F"}
LetterChars ==
  {"a","b","c","d","e","f","g","h","i","j","k","l","m","n","o","p","q","r","s","t",
   "u","v","w","x","y","z","A","B","C","D","E","F","G","H","I","J","K","L","M","N",
   "O","P","Q","R","S","T","U","V","W","X","Y","Z"}
isHexDigit(c) == c \in HexDigitChars
isDigit(c) == c \in DigitChars
isLetter(c) == c \in LetterChars
isLetterOrDigit(c) == isLetter(c) \/ isDigit(c)
WhitespaceChars == {" ", "\t", "\n", "\r"}

\* step() that takes a carriage return for a line end of its own, whatever
\* follows it.
stepEachLineEnd(input, ls) ==
  IF ls.position >= Len(input) THEN ls
  ELSE IF input[ls.position + 1] \in {"\r", "\n"}
  THEN [position |-> ls.position + 1, line |-> ls.line + 1, column |-> 1]
  ELSE [position |-> ls.position + 1, line |-> ls.line, column |-> ls.column + 1]

\* step() that leaves the column where it is.
stepKeepingColumn(input, ls) ==
  IF ls.position >= Len(input) THEN ls
  ELSE IF input[ls.position + 1] \in {"\r", "\n"}
  THEN [position |-> IF input[ls.position + 1] = "\r"
                        /\ CharAt(input, ls.position + 1) = "\n"
                     THEN ls.position + 2 ELSE ls.position + 1,
        line |-> ls.line + 1, column |-> 1]
  ELSE [position |-> ls.position + 1, line |-> ls.line, column |-> ls.column]

step(input, ls) ==
  IF ls.position >= Len(input) THEN ls
  ELSE LET ch == input[ls.position + 1]
       IN IF ch = "\r" THEN
            [position |-> IF CharAt(input, ls.position + 1) = "\n"
                          THEN ls.position + 2 ELSE ls.position + 1,
             line |-> ls.line + 1, column |-> 1]
          ELSE IF ch = "\n" THEN
            [position |-> ls.position + 1, line |-> ls.line + 1, column |-> 1]
          ELSE [position |-> ls.position + 1, line |-> ls.line, column |-> ls.column + 1]

RECURSIVE forward(_, _, _)
forward(input, ls, n) == IF n <= 0 THEN ls ELSE forward(input, step(input, ls), n - 1)

\* while (position < length && input[position] is one of chars) step()
RECURSIVE StepWhile(_, _, _)
StepWhile(input, ls, chars) ==
  IF ls.position < Len(input) /\ input[ls.position + 1] \in chars
  THEN StepWhile(input, step(input, ls), chars)
  ELSE ls

whitespace(input, ls) == StepWhile(input, ls, WhitespaceChars)

peekChar(input, ls) ==
  IF ls.position + 1 >= Len(input) THEN "\\0" ELSE input[ls.position + 2]

tokenTypeOf(value) ==
  CASE value = <<"n","u","l","l">> -> "NULL"
    [] value = <<"t","r","u","e">> -> "TRUE"
    [] value = <<"f","a","l","s","e">> -> "FALSE"
    [] value = <<"i","n">> -> "IN"
    [] OTHER -> "IDENTIFIER"

identifier(input, ls, line, column, offset) ==
  LET end == StepWhile(input, ls, LetterChars \cup DigitChars \cup {"_"})
      value == Substring(input, offset, end.position)
  IN LexOk(Token(tokenTypeOf(value), value, line, column), end)

\* A number token of the given type that ends where the lexer is at `end`.
NumberToken(input, end, type, line, column, offset) ==
  LexOk(Token(type, Substring(input, offset, end.position), line, column), end)

\* The end of number(): the uint suffix after digits that make no double.
NumberSuffix(input, end, isDouble, line, column, offset) ==
  IF ~isDouble /\ end.position < Len(input) /\ CharAt(input, end.position) \in {"u", "U"}
  THEN NumberToken(input, step(input, end), "UINT", line, column, offset)
  ELSE NumberToken(input, end, IF isDouble THEN "DOUBLE" ELSE "INT", line, column, offset)

\* The sign after the e of an exponent.
ExponentSign(input, ls) ==
  IF ls.position < Len(input) /\ CharAt(input, ls.position) \in {"+", "-"}
  THEN step(input, ls) ELSE ls

\* number() after the digits and the fraction: the exponent.
NumberExponent(input, ls, isDouble, line, column, offset) ==
  IF ls.position < Len(input) /\ CharAt(input, ls.position) \in {"e", "E"}
  THEN NumberSuffix(input, StepWhile(input, ExponentSign(input, step(input, ls)), DigitChars),
                    TRUE, line, column, offset)
  ELSE NumberSuffix(input, ls, isDouble, line, column, offset)

\* number() after the digits: the decimal point and the fraction.
NumberFraction(input, ls, line, column, offset) ==
  IF ls.position < Len(input) /\ CharAt(input, ls.position) = "."
  THEN NumberExponent(input, StepWhile(input, step(input, ls), DigitChars), TRUE,
                      line, column, offset)
  ELSE NumberExponent(input, ls, FALSE, line, column, offset)

number(input, ls, line, column, offset) ==
  IF CharAt(input, ls.position) = "0" /\ ls.position + 1 < Len(input)
     /\ CharAt(input, ls.position + 1) \in {"x", "X"}
  THEN NumberSuffix(input, StepWhile(input, forward(input, ls, 2), HexDigitChars), FALSE,
                    line, column, offset)
  ELSE NumberFraction(input, StepWhile(input, ls, DigitChars), line, column, offset)

\* The loop of string() that looks for the closing triple quotes.
RECURSIVE TripleQuoted(_, _, _, _, _, _)
TripleQuoted(input, ls, quote, line, column, offset) ==
  IF ls.position + 2 < Len(input) THEN
    IF /\ CharAt(input, ls.position) = quote
       /\ CharAt(input, ls.position + 1) = quote
       /\ CharAt(input, ls.position + 2) = quote
    THEN LET end == forward(input, ls, 3)
         IN LexOk(Token("STRING", Substring(input, offset, end.position), line, column), end)
    ELSE TripleQuoted(input, step(input, ls), quote, line, column, offset)
  ELSE ParseError("Unterminated triple-quoted string", line, column, ls)

\* The loop of string() and of bytes() that looks for the closing quote;
\* escapes tells whether a backslash takes the next character with it.
RECURSIVE Quoted(_, _, _, _, _, _, _, _, _)
Quoted(input, ls, quote, escapes, type, unterminated, line, column, offset) ==
  IF ls.position < Len(input) THEN
    LET ch == input[ls.position + 1]
    IN IF ch = quote THEN
         LET end == step(input, ls)
         IN LexOk(Token(type, Substring(input, offset, end.position), line, column), end)
       ELSE IF ch = "\\" /\ escapes /\ ls.position + 1 < Len(input)
       THEN Quoted(input, forward(input, ls, 2), quote, escapes, type, unterminated,
                   line, column, offset)
       ELSE Quoted(input, step(input, ls), quote, escapes, type, unterminated,
                   line, column, offset)
  ELSE ParseError(unterminated, line, column, ls)

string(input, ls, line, column, offset) ==
  LET isRaw == CharAt(input, ls.position) \in {"r", "R"}
      s1 == IF isRaw THEN step(input, ls) ELSE ls
      prefix == Substring(input, s1.position, s1.position + 3)
  IN IF s1.position + 2 < Len(input)
        /\ prefix \in {<<"\"", "\"", "\"">>, <<"'", "'", "'">>}
     THEN TripleQuoted(input, forward(input, s1, 3), CharAt(input, s1.position),
                       line, column, offset)
     ELSE Quoted(input, step(input, s1), CharAt(input, s1.position), ~isRaw, "STRING",
                 "Unterminated string", line, column, offset)

bytes(input, ls, line, column, offset) ==
  LET s1 == step(input, ls)
  IN Quoted(input, step(input, s1), CharAt(input, s1.position), TRUE, "BYTES",
            "Unterminated bytes literal", line, column, offset)

SingleCharTokens ==
  [c \in {"(", ")", "[", "]", "{", "}", ",", ".", ":", "?", "+", "*", "/", "%"} |->
     CASE c = "(" -> "LPAREN" [] c = ")" -> "RPAREN"
       [] c = "[" -> "LBRACKET" [] c = "]" -> "RBRACKET"
       [] c = "{" -> "LBRACE" [] c = "}" -> "RBRACE"
       [] c = "," -> "COMMA" [] c = "." -> "DOT"
       [] c = ":" -> "COLON" [] c = "?" -> "QUESTION"
       [] c = "+" -> "PLUS" [] c = "*" -> "STAR"
       [] c = "/" -> "SLASH" [] OTHER -> "PERCENT"]

\* Lexer.token() after this.whitespace(), the lexer at ls.
Scan(input, ls) ==
  LET start == ls.position
      line == ls.line
      column == ls.column
      ch == CharAt(input, ls.position)
      quoteNext == ls.position + 1 < Len(input)
                     /\ CharAt(input, ls.position + 1) \in {"\"", "'"}
      two(type, value) == LexOk(Token(type, value, line, column), forward(input, ls, 2))
      one(type) == LexOk(Token(type, <<ch>>, line, column), step(input, ls))
  IN IF ls.position >= Len(input) THEN LexOk(Token("EOF", <<>>, ls.line, ls.column), ls)
     ELSE IF ch \in DOMAIN SingleCharTokens THEN one(SingleCharTokens[ch])
     ELSE IF ch \in {"&", "|", "="} /\ peekChar(input, ls) = ch
     THEN two(CASE ch = "&" -> "LOGICAL_AND" [] ch = "|" -> "LOGICAL_OR" [] OTHER -> "EQ",
              <<ch, ch>>)
     ELSE IF ch \in {"!", "<", ">"} /\ peekChar(input, ls) = "="
     THEN two(CASE ch = "!" -> "NE" [] ch = "<" -> "LE" [] OTHER -> "GE", <<ch, "=">>)
     ELSE IF ch \in {"<", ">", "!", "-"}
     THEN one(CASE ch = "<" -> "LT" [] ch = ">" -> "GT" [] ch = "!" -> "BANG"
                [] OTHER -> "MINUS")
     ELSE IF ch \in {"\"", "'"} \/ (ch \in {"r", "R"} /\ quoteNext)
     THEN string(input, ls, line, column, start)
     ELSE IF ch \in {"b", "B"} /\ quoteNext THEN bytes(input, ls, line, column, start)
     ELSE IF isDigit(ch) THEN number(input, ls, line, column, start)
     ELSE IF isLetter(ch) \/ ch = "_" THEN identifier(input, ls, line, column, start)
     ELSE ParseError("Unexpected character", line, column, ls)

\* Lexer.token(): the next token scanned from the input.
token(input, ls0) == Scan(input, whitespace(input, ls0))

\* The fields of a new Lexer.
NewLexer == [position |-> 0, line |-> 1, column |-> 1, lookahead |-> <<>>]
Fields(lx) == [position |-> lx.position, line |-> lx.line, column |-> lx.column]
WithFields(lx, ls) ==
  [lx EXCEPT !.position = ls.position, !.line = ls.line, !.column = ls.column]

\* token() returned or threw t to a method of the Lexer lx, which returns or
\* throws the same.
Scanned(lx, t) ==
  [out |-> [x \in DOMAIN t \ {"ls"} |-> t[x]], lx |-> WithFields(lx, t.ls)]

\* next() that scans a new token whatever the lookahead holds.
nextPastLookahead(input, lx) == Scanned(lx, token(input, Fields(lx)))

\* next() that returns the first token of the lookahead and leaves it there.
nextKeepingLookahead(input, lx) ==
  IF Len(lx.lookahead) > 0
  THEN [out |-> [k |-> "ok", tok |-> Head(lx.lookahead)], lx |-> lx]
  ELSE Scanned(lx, token(input, Fields(lx)))

\* Lexer.next(): [out, lx], out the token returned or the error thrown and
\* lx the lexer afterwards.
next(input, lx) ==
  IF Len(lx.lookahead) > 0
  THEN [out |-> [k |-> "ok", tok |-> Head(lx.lookahead)],
        lx |-> [lx EXCEPT !.lookahead = Tail(@)]]
  ELSE Scanned(lx, token(input, Fields(lx)))

\* Lexer.peek(count)
RECURSIVE peek(_, _, _)
\* One turn of the while loop of peek: token() returned or threw t.
Pushed(input, lx, t, count) ==
  IF t.k = "err" THEN Scanned(lx, t)
  ELSE peek(input, [WithFields(lx, t.ls) EXCEPT !.lookahead = Append(@, t.tok)], count)

peek(input, lx, count) ==
  IF Len(lx.lookahead) < count THEN Pushed(input, lx, token(input, Fields(lx)), count)
  ELSE [out |-> [k |-> "ok", tok |-> lx.lookahead[count]], lx |-> lx]

(***************************************************************************)
(* parser/parser.ts: the conversions of literal tokens.                    *)
(***************************************************************************)
\* The characters with the codes 32 to 126, in order (the grave accent, which
\* has no spelling in a string here, under the name of its code).
AsciiChars ==
  <<" ", "!", "\"", "#", "$", "%", "&", "'", "(", ")", "*", "+", ",", "-", ".", "/",
    "0", "1", "2", "3", "4", "5", "6", "7", "8", "9", ":", ";", "<", "=", ">", "?",
    "@", "A", "B", "C", "D", "E", "F", "G", "H", "I", "J", "K", "L", "M", "N", "O",
    "P", "Q", "R", "S", "T", "U", "V", "W", "X", "Y", "Z", "[", "\\", "]", "^", "_",
    "U+96", "a", "b", "c", "d", "e", "f", "g", "h", "i", "j", "k", "l", "m", "n", "o",
    "p", "q", "r", "s", "t", "u", "v", "w", "x", "y", "z", "{", "|", "}", "~">>

\* The code unit n as a character: itself when it is printable or a line
\* end or tab, and a name of its code otherwise.
CodeUnit(n) ==
  IF n >= 32 /\ n <= 126 THEN AsciiChars[n - 31]
  ELSE IF n = 9 THEN "\t"
  ELSE IF n = 10 THEN "\n"
  ELSE IF n = 13 THEN "\r"
  ELSE "U+" \o ToString(n)

\* String.fromCharCode(num): one code unit, num taken modulo 2^16.
fromCharCode(num) == IF num.q = 0 THEN CodeUnit(0) ELSE CodeUnit(num.p % 65536)

\* Whether String.fromCodePoint(num) throws a RangeError.
IsInvalidCodePoint(num) == num.q # 1 \/ num.p < 0 \/ num.p > 1114111

\* String.fromCodePoint(num) of a valid code point: one code unit, or the
\* two surrogates of a code point above 0xFFFF.
fromCodePoint(num) ==
  IF num.p <= 65535 THEN <<CodeUnit(num.p)>>
  ELSE <<CodeUnit(55296 + ((num.p - 65536) \div 1024)),
         CodeUnit(56320 + ((num.p - 65536) % 1024))>>

\* The value of the digit c in a radix up to 36; 99 when c is no digit.
DigitValue(c) ==
  IF PosIn(c, Digits) > 0 THEN PosIn(c, Digits) - 1
  ELSE IF PosIn(c, LowerLetters) > 0 THEN 9 + PosIn(c, LowerLetters)
  ELSE IF PosIn(c, UpperLetters) > 0 THEN 9 + PosIn(c, UpperLetters)
  ELSE 99

\* The digits of s from index i (1-based) on that are valid in radix:
\* their value n and the index `end` after the last of them.
RECURSIVE DigitsFrom(_, _, _, _)
DigitsFrom(s, i, radix, acc) ==
  IF i <= Len(s) /\ DigitValue(s[i]) < radix
  THEN DigitsFrom(s, i + 1, radix, acc * radix + DigitValue(s[i]))
  ELSE [n |-> acc, end |-> i]

RECURSIVE SkipWhitespace(_, _)
SkipWhitespace(s, i) ==
  IF i <= Len(s) /\ s[i] \in WhitespaceChars THEN SkipWhitespace(s, i + 1) ELSE i

\* parseInt(s, radix): leading blanks, a sign, for radix 16 a 0x prefix, and
\* then the longest run of digits; NaN when there is no digit.
parseInt(s, radix) ==
  LET i0 == SkipWhitespace(s, 1)
      negative == i0 <= Len(s) /\ s[i0] = "-"
      i1 == IF i0 <= Len(s) /\ s[i0] \in {"+", "-"} THEN i0 + 1 ELSE i0
      i2 == IF radix = 16 /\ i1 + 1 <= Len(s) /\ s[i1] = "0" /\ s[i1 + 1] \in {"x", "X"}
            THEN i1 + 2 ELSE i1
      d == DigitsFrom(s, i2, radix, 0)
  IN IF d.end = i2 THEN NaN ELSE IntV(IF negative THEN -d.n ELSE d.n)

RECURSIVE Pow10(_)
Pow10(n) == IF n <= 0 THEN 1 ELSE 10 * Pow10(n - 1)

\* parseFloat(s) of a text that starts with a digit: digits, a fraction, and
\* an exponent when digits follow the e.
parseFloat(s) ==
  LET int == DigitsFrom(s, 1, 10, 0)
      hasPoint == int.end <= Len(s) /\ s[int.end] = "."
      frac == IF hasPoint THEN DigitsFrom(s, int.end + 1, 10, int.n) ELSE int
      fracLen == IF hasPoint THEN frac.end - (int.end + 1) ELSE 0
      hasE == frac.end <= Len(s) /\ s[frac.end] \in {"e", "E"}
      negative == hasE /\ frac.end + 1 <= Len(s) /\ s[frac.end + 1] = "-"
      e1 == IF hasE /\ frac.end + 1 <= Len(s) /\ s[frac.end + 1] \in {"+", "-"}
            THEN frac.end + 2 ELSE frac.end + 1
      exp == IF hasE THEN DigitsFrom(s, e1, 10, 0) ELSE [n |-> 0, end |-> e1]
      e == (IF hasE /\ exp.end > e1 THEN (IF negative THEN -exp.n ELSE exp.n) ELSE 0)
             - fracLen
  IN IF e >= 0 THEN Num(frac.n * Pow10(e), 1) ELSE Num(frac.n, Pow10(-e))

StartsWith(s, prefix) == Len(s) >= Len(prefix) /\ SubSeq(s, 1, Len(prefix)) = prefix

parseIntLiteral(value) ==
  IF StartsWith(value, <<"-", "0", "x">>) \/ StartsWith(value, <<"-", "0", "X">>)
  THEN NumNeg(parseInt(Substring(value, 3, Len(value)), 16))
  ELSE IF StartsWith(value, <<"0", "x">>) \/ StartsWith(value, <<"0", "X">>)
  THEN parseInt(Substring(value, 2, Len(value)), 16)
  ELSE parseInt(value, 10)

parseUintLiteral(value) ==
  LET num == Substring(value, 0, Len(value) - 1)
  IN IF StartsWith(num, <<"0", "x">>) \/ StartsWith(num, <<"0", "X">>)
     THEN parseInt(Substring(num, 2, Len(num)), 16)
     ELSE parseInt(num, 10)

\* The loop of unescapeString from index i (0-based) with `result` so far.
RECURSIVE unescapeFrom(_, _, _)
unescapeFrom(value, i, result) ==
  IF i >= Len(value) THEN Ok(result)
  ELSE IF CharAt(value, i) = "\\" /\ i + 1 < Len(value) THEN
    LET nxt == CharAt(value, i + 1)
        keep == unescapeFrom(value, i + 1, Append(result, CharAt(value, i)))
        one(c) == unescapeFrom(value, i + 2, Append(result, c))
    IN CASE nxt \in {"\\", "\"", "'", "U+96", "?"} -> one(nxt)
         [] nxt = "a" -> one(CodeUnit(7))
         [] nxt = "b" -> one(CodeUnit(8))
         [] nxt = "f" -> one(CodeUnit(12))
         [] nxt = "n" -> one("\n")
         [] nxt = "r" -> one("\r")
         [] nxt = "t" -> one("\t")
         [] nxt = "v" -> one(CodeUnit(11))
         [] nxt = "x" ->
              IF i + 3 < Len(value)
              THEN unescapeFrom(value, i + 4,
                     Append(result, fromCharCode(parseInt(Substring(value, i + 2, i + 4), 16))))
              ELSE keep
         [] nxt = "u" ->
              IF i + 5 < Len(value)
              THEN unescapeFrom(value, i + 6,
                     Append(result, fromCharCode(parseInt(Substring(value, i + 2, i + 6), 16))))
              ELSE keep
         [] nxt = "U" ->
              IF i + 9 < Len(value)
              THEN LET codePoint == parseInt(Substring(value, i + 2, i + 10), 16)
                   IN IF IsInvalidCodePoint(codePoint)
                      THEN Throw("RangeError", "Invalid code point")
                      ELSE unescapeFrom(value, i + 10, result \o fromCodePoint(codePoint))
              ELSE keep
         [] OTHER ->
              IF /\ i + 3 < Len(value)
                 /\ nxt \in {"0", "1", "2", "3"}
                 /\ CharAt(value, i + 2) \in {"0", "1", "2", "3", "4", "5", "6", "7"}
                 /\ CharAt(value, i + 3) \in {"0", "1", "2", "3", "4", "5", "6", "7"}
              THEN unescapeFrom(value, i + 4,
                     Append(result, fromCharCode(parseInt(Substring(value, i + 1, i + 4), 8))))
              ELSE keep
  ELSE unescapeFrom(value, i + 1, Append(result, CharAt(value, i)))

unescapeString(value) == unescapeFrom(value, 0, <<>>)

TripleQuotes == {<<"\"", "\"", "\"">>, <<"'", "'", "'">>}

parseStringLiteral(value) ==
  LET isRaw == StartsWith(value, <<"r">>) \/ StartsWith(value, <<"R">>)
  IN IF isRaw /\ Substring(value, 1, 4) \in TripleQuotes
     THEN Ok(Substring(value, 4, Len(value) - 3))
     ELSE IF Substring(value, 0, 3) \in TripleQuotes
     THEN unescapeString(Substring(value, 3, Len(value) - 3))
     ELSE IF isRaw THEN Ok(Substring(value, 2, Len(value) - 1))
     ELSE unescapeString(Substring(value, 1, Len(value) - 1))

parseBytesLiteral(value) == unescapeString(Substring(value, 2, Len(value) - 1))

(***************************************************************************)
(* parser/parser.ts: the Parser.  A parser state ps holds the input, the   *)
(* Lexer lx and the current token.  A method returns [k |-> "ok", v, ps]   *)
(* or, when it throws, [k |-> "err", cls, msg, line, column, ps]; line and *)
(* column are 0 for an error that carries no position.                     *)
(***************************************************************************)
MACRO_METHODS == {S_map, S_filter, S_all, S_exists, S_existsOne}

POk(v, ps) == [k |-> "ok", v |-> v, ps |-> ps]
\* throw new ParseError(msg, tok.line, tok.column)
PErr(msg, tok, ps) ==
  [k |-> "err", cls |-> "ParseError", msg |-> msg, line |-> tok.line,
   column |-> tok.column, ps |-> ps]
\* The error `out` of the Lexer or of a conversion, passing through.
PThrow(out, ps) ==
  [k |-> "err", cls |-> out.cls, msg |-> out.msg,
   line |-> IF "line" \in DOMAIN out THEN out.line ELSE 0,
   column |-> IF "column" \in DOMAIN out THEN out.column ELSE 0, ps |-> ps]

\* Sequencing of two steps of a method: what r threw propagates, and what it
\* returned goes on to Body.
Then(r, Body(_)) == IF r.k = "err" THEN r ELSE Body(r)

\* this.current = this.lexer.next(), the call having returned or thrown r.
Advanced(ps, r) ==
  IF r.out.k = "ok" THEN POk(TRUE, [ps EXCEPT !.lx = r.lx, !.current = r.out.tok])
  ELSE PThrow(r.out, [ps EXCEPT !.lx = r.lx])

advance(ps) == Advanced(ps, next(ps.input, ps.lx))

\* this.lexer.peek(count) having returned or thrown r.
Peeked(ps, r) ==
  IF r.out.k = "ok" THEN POk(r.out.tok, [ps EXCEPT !.lx = r.lx])
  ELSE PThrow(r.out, [ps EXCEPT !.lx = r.lx])

peekAhead(ps, count) == Peeked(ps, peek(ps.input, ps.lx, count))

\* advance() returns nothing, here TRUE, which is also what match returns
\* after it.
match(ps, type) == IF ps.current.type = type THEN advance(ps) ELSE POk(FALSE, ps)

expect(ps, type) ==
  IF ps.current.type # type THEN PErr("Expected " \o type, ps.current, ps)
  ELSE advance(ps)

expectIdentifier(ps) ==
  IF ps.current.type # "IDENTIFIER" THEN PErr("Expected identifier", ps.current, ps)
  ELSE Then(advance(ps), LAMBDA advanced : POk(ps.current.value, advanced.ps))

isLiteralToken(type) ==
  type \in {"NULL", "TRUE", "FALSE", "INT", "UINT", "DOUBLE", "STRING", "BYTES"}

isRelationalOp(type) == type \in {"LT", "LE", "GT", "GE", "EQ", "NE", "IN"}

toBinaryOp(type) ==
  CASE type = "LT" -> "LESS"
    [] type = "LE" -> "LESS_EQUAL"
    [] type = "GT" -> "GREATER"
    [] type = "GE" -> "GREATER_EQUAL"
    [] type = "EQ" -> "EQUAL"
    [] type = "NE" -> "NOT_EQUAL"
    [] OTHER -> "IN"

\* The while loop of isQualifiedStructLiteral, about to look at the token
\* `lookahead` places ahead.
RECURSIVE QualifiedFrom(_, _)
QualifiedFrom(ps, lookahead) ==
  Then(peekAhead(ps, lookahead), LAMBDA dot :
    IF dot.v.type = "DOT"
    THEN Then(peekAhead(dot.ps, lookahead + 1), LAMBDA id :
           IF id.v.type # "IDENTIFIER" THEN POk(FALSE, id.ps)
           ELSE QualifiedFrom(id.ps, lookahead + 2))
    ELSE POk(dot.v.type = "LBRACE", dot.ps))

\* isQualifiedStructLiteral that answers after the first identifier, without
\* looking for the brace.
isQualifiedStructLiteralUnconfirmed(ps) ==
  Then(peekAhead(ps, 1), LAMBDA id : POk(id.v.type = "IDENTIFIER", id.ps))

isQualifiedStructLiteral(ps) ==
  Then(peekAhead(ps, 1), LAMBDA id :
    IF id.v.type # "IDENTIFIER" THEN POk(FALSE, id.ps) ELSE QualifiedFrom(id.ps, 2))

RECURSIVE parseQualifiedIdent(_, _)
parseQualifiedIdent(ps, qualified) ==
  IF ps.current.type = "DOT"
  THEN Then(advance(ps), LAMBDA advanced :
       Then(expectIdentifier(advanced.ps), LAMBDA id :
         parseQualifiedIdent(id.ps, qualified \o <<".">> \o id.v)))
  ELSE POk(qualified, ps)

\* The literal of a string or bytes token whose conversion returned or threw c.
Converted(c, literalType, ps) ==
  IF c.k = "err" THEN PThrow(c, ps) ELSE POk(Literal(Str(c.v), literalType), ps)

\* The switch of parseLiteral over the token tok, the parser past it at ps.
LiteralOf(tok, ps) ==
  CASE tok.type = "NULL" -> POk(Literal(Null, "NULL_VALUE"), ps)
    [] tok.type = "TRUE" -> POk(Literal(Bool(TRUE), "BOOL"), ps)
    [] tok.type = "FALSE" -> POk(Literal(Bool(FALSE), "BOOL"), ps)
    [] tok.type = "INT" -> POk(Literal(parseIntLiteral(tok.value), "INT"), ps)
    [] tok.type = "UINT" -> POk(Literal(parseUintLiteral(tok.value), "UINT"), ps)
    [] tok.type = "DOUBLE" -> POk(Literal(parseFloat(tok.value), "DOUBLE"), ps)
    [] tok.type = "STRING" -> Converted(parseStringLiteral(tok.value), "STRING", ps)
    [] tok.type = "BYTES" -> Converted(parseBytesLiteral(tok.value), "BYTES", ps)
    [] OTHER -> PErr("Not a literal", tok, ps)

parseLiteral(ps) == Then(advance(ps), LAMBDA advanced : LiteralOf(ps.current, advanced.ps))

RECURSIVE parseExpr(_)
RECURSIVE parseConditionalOr(_)
RECURSIVE parseConditionalAnd(_)
RECURSIVE parseRelation(_)
RECURSIVE parseAddition(_)
RECURSIVE parseMultiplication(_)
RECURSIVE parseUnary(_)
RECURSIVE parseMember(_)
RECURSIVE MemberLoop(_, _)
RECURSIVE parsePrimary(_)
RECURSIVE parseListLiteral(_)
RECURSIVE parseMapOrStructLiteral(_, _)
RECURSIVE parseExprList(_)
RECURSIVE ExprListLoop(_, _)
RECURSIVE parseMapInits(_)
RECURSIVE MapInitsLoop(_, _)
RECURSIVE parseMapInit(_)
RECURSIVE parseFieldInits(_)
RECURSIVE FieldInitsLoop(_, _)
RECURSIVE parseFieldInit(_)
RECURSIVE CallArgs(_)

parseExpr(ps) ==
  Then(parseConditionalOr(ps), LAMBDA condition :
  Then(match(condition.ps, "QUESTION"), LAMBDA question :
    IF ~question.v THEN POk(condition.v, question.ps)
    ELSE Then(parseConditionalOr(question.ps), LAMBDA thenExpr :
         Then(expect(thenExpr.ps, "COLON"), LAMBDA colon :
         Then(parseExpr(colon.ps), LAMBDA otherwiseExpr :
           POk(Conditional(condition.v, thenExpr.v, otherwiseExpr.v),
               otherwiseExpr.ps))))))

\* A left-associative level: an operand and then the while loop the five
\* levels share, which, as long as the current token is an operator of the
\* level, takes it and the operand to its right.  OperatorOf gives the
\* operation of a token type, "" for none.
BinaryLevel(ps, Operand(_), OperatorOf(_)) ==
  LET RECURSIVE BinaryLoop(_, _)
      BinaryLoop(left, at) ==
        IF OperatorOf(at.current.type) = "" THEN POk(left, at)
        ELSE Then(advance(at), LAMBDA advanced :
             Then(Operand(advanced.ps), LAMBDA right :
               BinaryLoop(Binary(OperatorOf(at.current.type), left, right.v), right.ps)))
  IN Then(Operand(ps), LAMBDA first : BinaryLoop(first.v, first.ps))

ConditionalOrOp(type) == IF type = "LOGICAL_OR" THEN "LOGICAL_OR" ELSE ""
ConditionalAndOp(type) == IF type = "LOGICAL_AND" THEN "LOGICAL_AND" ELSE ""
RelationOp(type) == IF isRelationalOp(type) THEN toBinaryOp(type) ELSE ""
AdditionOp(type) ==
  IF type = "PLUS" THEN "ADD" ELSE IF type = "MINUS" THEN "SUBTRACT" ELSE ""
\* The multiplicative level taking the additive operators as well.
MultiplicationOpWithSums(type) ==
  IF type = "STAR" THEN "MULTIPLY"
  ELSE IF type = "SLASH" THEN "DIVIDE"
  ELSE IF type = "PERCENT" THEN "MODULO"
  ELSE IF type = "PLUS" THEN "ADD" ELSE IF type = "MINUS" THEN "SUBTRACT" ELSE ""

MultiplicationOp(type) ==
  IF type = "STAR" THEN "MULTIPLY"
  ELSE IF type = "SLASH" THEN "DIVIDE"
  ELSE IF type = "PERCENT" THEN "MODULO" ELSE ""

parseConditionalOr(ps) == BinaryLevel(ps, parseConditionalAnd, ConditionalOrOp)
parseConditionalAnd(ps) == BinaryLevel(ps, parseRelation, ConditionalAndOp)
parseRelation(ps) == BinaryLevel(ps, parseAddition, RelationOp)
parseAddition(ps) == BinaryLevel(ps, parseMultiplication, AdditionOp)
parseMultiplication(ps) == BinaryLevel(ps, parseUnary, MultiplicationOp)

parseUnary(ps) ==
  IF ps.current.type \in {"BANG", "MINUS"}
  THEN Then(advance(ps), LAMBDA advanced :
       Then(parseUnary(advanced.ps), LAMBDA operand :
         POk(Unary(IF ps.current.type = "BANG" THEN "NOT" ELSE "NEGATE", operand.v),
             operand.ps)))
  ELSE parseMember(ps)

\* '(' exprList ')' with the current token at the parenthesis.
CallArgs(ps) ==
  Then(advance(ps), LAMBDA advanced :
  Then(parseExprList(advanced.ps), LAMBDA list :
  Then(expect(list.ps, "RPAREN"), LAMBDA close : POk(list.v, close.ps))))

parseMember(ps) == Then(parsePrimary(ps), LAMBDA primary : MemberLoop(primary.v, primary.ps))

MemberLoop(expr, ps) ==
  IF ps.current.type = "DOT"
  THEN Then(advance(ps), LAMBDA advanced :
       Then(expectIdentifier(advanced.ps), LAMBDA field :
         IF field.ps.current.type = "LPAREN"
         THEN Then(CallArgs(field.ps), LAMBDA list :
                MemberLoop(Call(expr, field.v, list.v, field.v \in MACRO_METHODS), list.ps))
         ELSE MemberLoop(Select(expr, field.v, FALSE), field.ps)))
  ELSE IF ps.current.type = "LBRACKET"
  THEN Then(advance(ps), LAMBDA advanced :
       Then(parseExpr(advanced.ps), LAMBDA subscript :
       Then(expect(subscript.ps, "RBRACKET"), LAMBDA close :
         MemberLoop(Index(expr, subscript.v), close.ps))))
  ELSE POk(expr, ps)

\* parsePrimary at '(': a parenthesized expression.
Parenthesized(ps) ==
  Then(advance(ps), LAMBDA advanced :
  Then(parseExpr(advanced.ps), LAMBDA inner :
  Then(expect(inner.ps, "RPAREN"), LAMBDA close : POk(inner.v, close.ps))))

\* parsePrimary at '.': a field or a call with a leading dot.
LeadingDot(ps) ==
  Then(advance(ps), LAMBDA advanced :
  Then(expectIdentifier(advanced.ps), LAMBDA field :
    IF field.ps.current.type = "LPAREN"
    THEN Then(CallArgs(field.ps), LAMBDA list :
           POk(Call(NoExpr, field.v, list.v, FALSE), list.ps))
    ELSE POk(Select(NoExpr, field.v, FALSE), field.ps)))

\* parsePrimary past the identifier `name`: the type name of the struct
\* literal that starts here, Null when none does.
StructTypeName(name, ps) ==
  IF ps.current.type = "DOT"
  THEN Then(isQualifiedStructLiteral(ps), LAMBDA isQualified :
         IF isQualified.v
         THEN Then(parseQualifiedIdent(isQualified.ps, name), LAMBDA qualified :
                POk(Str(qualified.v), qualified.ps))
         ELSE POk(Null, isQualified.ps))
  ELSE IF ps.current.type = "LBRACE" THEN POk(Str(name), ps)
  ELSE POk(Null, ps)

\* parsePrimary past the identifier `name`: a call, a struct literal or the
\* identifier.
AfterIdentifier(name, ps) ==
  IF ps.current.type = "LPAREN"
  THEN Then(CallArgs(ps), LAMBDA list : POk(Call(NoExpr, name, list.v, FALSE), list.ps))
  ELSE Then(StructTypeName(name, ps), LAMBDA typeName :
         IF typeName.v = Null THEN POk(Identifier(name), typeName.ps)
         ELSE parseMapOrStructLiteral(typeName.ps, typeName.v))

parsePrimary(ps) ==
  IF isLiteralToken(ps.current.type) THEN parseLiteral(ps)
  ELSE IF ps.current.type = "LBRACKET" THEN parseListLiteral(ps)
  ELSE IF ps.current.type = "LBRACE" THEN parseMapOrStructLiteral(ps, Null)
  ELSE IF ps.current.type = "LPAREN" THEN Parenthesized(ps)
  ELSE IF ps.current.type = "DOT" THEN LeadingDot(ps)
  ELSE IF ps.current.type = "IDENTIFIER"
  THEN Then(advance(ps), LAMBDA advanced : AfterIdentifier(ps.current.value, advanced.ps))
  ELSE PErr("Unexpected token", ps.current, ps)

\* if (current is COMMA) advance()
SkipComma(ps) == IF ps.current.type = "COMMA" THEN advance(ps) ELSE POk(TRUE, ps)

parseListLiteral(ps) ==
  Then(expect(ps, "LBRACKET"), LAMBDA open :
  Then(IF open.ps.current.type # "RBRACKET"
       THEN Then(parseExprList(open.ps), LAMBDA list :
            Then(SkipComma(list.ps), LAMBDA comma : POk(list.v, comma.ps)))
       ELSE POk(<<>>, open.ps), LAMBDA elements :
  Then(expect(elements.ps, "RBRACKET"), LAMBDA close :
    POk(ListExpression(elements.v), close.ps))))

\* parseMapOrStructLiteral past '{' when no '}' follows: the initializers,
\* of fields when asStruct, and the closing brace.
Initializers(ps, typeName, asStruct) ==
  Then(IF asStruct THEN parseFieldInits(ps) ELSE parseMapInits(ps), LAMBDA inits :
  Then(SkipComma(inits.ps), LAMBDA comma :
  Then(expect(comma.ps, "RBRACE"), LAMBDA close :
    POk(IF asStruct THEN Struct(typeName, inits.v) ELSE MapExpression(inits.v),
        close.ps))))

\* parseMapOrStructLiteral that takes the literal for a struct only when its
\* first entry starts with an identifier and a colon.
parseMapOrStructLiteralByEntry(ps, typeName) ==
  Then(expect(ps, "LBRACE"), LAMBDA open :
    IF open.ps.current.type = "RBRACE"
    THEN Then(advance(open.ps), LAMBDA advanced : POk(MapExpression(<<>>), advanced.ps))
    ELSE Then(IF open.ps.current.type = "IDENTIFIER" THEN peekAhead(open.ps, 1)
              ELSE POk(open.ps.current, open.ps), LAMBDA ahead :
           Initializers(ahead.ps, typeName,
                        open.ps.current.type = "IDENTIFIER" /\ ahead.v.type = "COLON")))

parseMapOrStructLiteral(ps, typeName) ==
  Then(expect(ps, "LBRACE"), LAMBDA open :
    IF open.ps.current.type = "RBRACE"
    THEN Then(advance(open.ps), LAMBDA advanced :
           POk(IF typeName # Null THEN Struct(typeName, <<>>) ELSE MapExpression(<<>>),
               advanced.ps))
    ELSE Then(IF open.ps.current.type = "IDENTIFIER" THEN peekAhead(open.ps, 1)
              ELSE POk(open.ps.current, open.ps), LAMBDA ahead :
           Initializers(ahead.ps, typeName,
                        \/ (open.ps.current.type = "IDENTIFIER" /\ ahead.v.type = "COLON")
                        \/ typeName # Null)))

parseExprList(ps) ==
  IF ps.current.type \in {"RPAREN", "RBRACKET"} THEN POk(<<>>, ps)
  ELSE Then(parseExpr(ps), LAMBDA first : ExprListLoop(<<first.v>>, first.ps))

ExprListLoop(expressions, ps) ==
  IF ps.current.type = "COMMA"
  THEN Then(advance(ps), LAMBDA advanced :
         IF advanced.ps.current.type \in {"RPAREN", "RBRACKET"}
         THEN POk(expressions, advanced.ps)
         ELSE Then(parseExpr(advanced.ps), LAMBDA element :
                ExprListLoop(Append(expressions, element.v), element.ps)))
  ELSE POk(expressions, ps)

parseMapInits(ps) ==
  Then(parseMapInit(ps), LAMBDA first : MapInitsLoop(<<first.v>>, first.ps))

MapInitsLoop(entries, ps) ==
  IF ps.current.type = "COMMA"
  THEN Then(advance(ps), LAMBDA advanced :
         IF advanced.ps.current.type = "RBRACE" THEN POk(entries, advanced.ps)
         ELSE Then(parseMapInit(advanced.ps), LAMBDA entry :
                MapInitsLoop(Append(entries, entry.v), entry.ps)))
  ELSE POk(entries, ps)

parseMapInit(ps) ==
  Then(parseExpr(ps), LAMBDA key :
  Then(expect(key.ps, "COLON"), LAMBDA colon :
  Then(parseExpr(colon.ps), LAMBDA value : POk(MapEntry(key.v, value.v), value.ps))))

parseFieldInits(ps) ==
  Then(parseFieldInit(ps), LAMBDA first : FieldInitsLoop(<<first.v>>, first.ps))

FieldInitsLoop(fields, ps) ==
  IF ps.current.type = "COMMA"
  THEN Then(advance(ps), LAMBDA advanced :
         IF advanced.ps.current.type = "RBRACE" THEN POk(fields, advanced.ps)
         ELSE Then(parseFieldInit(advanced.ps), LAMBDA initializer :
                FieldInitsLoop(Append(fields, initializer.v), initializer.ps)))
  ELSE POk(fields, ps)

parseFieldInit(ps) ==
  Then(expectIdentifier(ps), LAMBDA field :
  Then(expect(field.ps, "COLON"), LAMBDA colon :
  Then(parseExpr(colon.ps), LAMBDA value :
    POk(FieldInitializer(field.v, value.v), value.ps))))

\* new Parser(input) once lexer.next() returned or threw r.
Constructed(input, r) ==
  IF r.out.k = "ok" THEN POk(TRUE, [input |-> input, lx |-> r.lx, current |-> r.out.tok])
  ELSE PThrow(r.out, [input |-> input, lx |-> r.lx, current |-> Token("EOF", <<>>, 0, 0)])

\* new Parser(input): the constructor reads the first token.
NewParser(input) == Constructed(input, next(input, NewLexer))

\* Parser.parse()
parse(ps) ==
  Then(parseExpr(ps), LAMBDA whole :
    IF whole.ps.current.type # "EOF"
    THEN PErr("Unexpected token after expression", whole.ps.current, whole.ps)
    ELSE whole)

(***************************************************************************)
(* The state machine.                                                      *)
(***************************************************************************)
VARIABLES
  ast,       \* Program.ast: the tree a Program was compiled to
  bindings,  \* the variables object the caller holds and passes to evaluate
  outcome,   \* what the last evaluate call returned or raised
  events,    \* the events of the last evaluate call, in order
  calls,     \* the number of evaluate calls made so far
  input,     \* the source text given to a Lexer or a Parser
  lexer,     \* the fields of the Lexer: position, line, column, lookahead
  history,   \* what each next() call on the Lexer returned or raised, in order
  peeks,     \* what each peek(count) call returned or raised, and when
  parser,    \* the Parser: its Lexer and current token, once constructed
  parsed     \* what Parser.parse() returned or raised

evalVars == <<ast, bindings, outcome, events, calls>>
lexVars == <<lexer, history, peeks>>
parseVars == <<parser, parsed>>
vars == <<evalVars, input, lexVars, parseVars>>

\* How many evaluate calls a behaviour makes.
MaxCalls == 2

NoOutcome == [k |-> "none"]

\* No evaluation is under way.
EvalIdle ==
  /\ ast = [k |-> "null"]
  /\ bindings = [t |-> "obj", own |-> <<>>, proto |-> [t |-> "objproto"]]
  /\ outcome = NoOutcome
  /\ events = <<>>
  /\ calls = 0

\* No Parser has been made.
ParseIdle ==
  /\ parser = NoOutcome
  /\ parsed = NoOutcome

\* No Lexer has been made.
LexIdle ==
  /\ lexer = [position |-> 0, line |-> 1, column |-> 1, lookahead |-> <<>>]
  /\ history = <<>>
  /\ peeks = <<>>
Outcome(r) == IF r.k = "ok" THEN Ok(r.v) ELSE Throw(r.cls, r.msg)

\* program.evaluate(bindings)
\* An evaluate call made through `via` ended with r and left the caller's
\* object as host.
Evaluated(r, host, via) ==
  /\ outcome' = Outcome(r) @@ [via |-> via]
  /\ events' = r.st.tr
  /\ bindings' = host
  /\ calls' = calls + 1
  /\ UNCHANGED <<ast, input, lexVars, parseVars>>

ProgramEvaluated(c) == Evaluated(c.r, c.host, "Program")
InterpreterEvaluated(r) == Evaluated(r, r.st.env, "Interpreter")

ProgramEvaluate ==
  /\ calls < MaxCalls
  /\ ProgramEvaluated(ProgramEvaluateCall(ast, bindings))

\* new Interpreter(bindings).evaluate(ast): the Interpreter works on the
\* caller's object itself.
InterpreterEvaluateDirect ==
  /\ calls < MaxCalls
  /\ InterpreterEvaluated(InterpreterEvaluate(bindings, ast))

NextEval == ProgramEvaluate \/ InterpreterEvaluateDirect

\* The initial states of an evaluation specification: a tree and a
\* variables object drawn from the given sets.
InitEval(trees, objects) ==
  /\ ast \in trees
  /\ bindings \in objects
  /\ outcome = NoOutcome
  /\ events = <<>>
  /\ calls = 0
  /\ input = <<>>
  /\ LexIdle
  /\ ParseIdle

(***************************************************************************)
(* Reading the events of an evaluate call.                                 *)
(***************************************************************************)
Front(q) == SubSeq(q, 1, Len(q) - 1)
Last(q) == q[Len(q)]

IsVisit(i, at) == events[i].ev = "visit" /\ events[i].at = at
IsExit(i, at) == events[i].ev = "exit" /\ events[i].at = at

\* The exit event that closes the visit at event i.
MatchExit(i) ==
  LET later == {j \in (i + 1)..Len(events) : IsExit(j, events[i].at)}
  IN CHOOSE j \in later : \A h \in later : j <= h

\* The visit event that the exit at event i closes.
MatchVisit(i) ==
  LET earlier == {j \in 1..(i - 1) : IsVisit(j, events[i].at)}
  IN CHOOSE j \in earlier : \A h \in earlier : h <= j

\* The visit of the parent node of the node whose exit is event i.
ParentVisit(i) ==
  LET earlier == {j \in 1..(i - 1) : IsVisit(j, Front(events[i].at))}
  IN CHOOSE j \in earlier : \A h \in earlier : h <= j

\* The events strictly between i and j that visit the node at path `at`.
VisitsBetween(i, j, at) == {h \in (i + 1)..(j - 1) : IsVisit(h, at)}

(***************************************************************************)
(* Trees and variables objects that evaluations start from.                *)
(***************************************************************************)
\* The largest integer literal of a tree.
MaxInt == 2

LitBool(b) == Literal(Bool(b), "BOOL")
LitInt(n) == Literal(IntV(n), "INT")
LitDouble(p, q) == Literal(Num(p, q), "DOUBLE")
LitStr(s) == Literal(Str(s), "STRING")
LitNull == Literal(Null, "NULL_VALUE")
VarX == Identifier(<<"x">>)
VarY == Identifier(<<"y">>)
DivByZero == Binary("DIVIDE", LitInt(1), LitInt(0))
ObjX(v) == Obj([key \in {<<"x">>} |-> v])

LogicalOps == {"LOGICAL_AND", "LOGICAL_OR"}

\* Operands of every type, operands that raise, and a variable.
LogicAtoms ==
  {LitBool(TRUE), LitBool(FALSE), LitNull, LitStr(<<"a">>), VarX, VarY,
   DivByZero, ListExpression(<<>>), MapExpression(<<>>)}
    \cup {LitInt(n) : n \in 0..MaxInt}

LogicInner == {LitBool(TRUE), LitBool(FALSE), VarX, DivByZero, LitInt(1)}

LogicTrees ==
  {Binary(op, l, r) : op \in LogicalOps, l \in LogicAtoms, r \in LogicAtoms}
    \cup {Binary(op, Binary(o2, a, b), c) :
            op \in LogicalOps, o2 \in LogicalOps,
            a \in LogicInner, b \in LogicInner, c \in LogicInner}
    \cup {Binary(op, a, Binary(o2, b, c)) :
            op \in LogicalOps, o2 \in LogicalOps,
            a \in LogicInner, b \in LogicInner, c \in LogicInner}
    \cup {Call(ListExpression(<<LitBool(TRUE), LitBool(FALSE)>>), name,
               <<VarX, Binary(op, VarX, r)>>, TRUE) :
            name \in {S_all, S_exists, S_map}, op \in LogicalOps, r \in LogicInner}

ConditionalTrees ==
  {Conditional(c, t, e) : c \in LogicAtoms, t \in LogicInner, e \in LogicInner}
    \cup {Conditional(c, Conditional(a, t, e), DivByZero) :
            c \in LogicInner, a \in LogicInner, t \in LogicInner, e \in LogicInner}
    \cup {Conditional(Conditional(a, t, e), LitInt(1), DivByZero) :
            a \in LogicInner, t \in LogicInner, e \in LogicInner}
    \cup {Call(ListExpression(<<LitBool(TRUE), LitBool(FALSE)>>), S_map,
               <<VarX, Conditional(VarX, t, e)>>, TRUE) :
            t \in LogicInner, e \in LogicInner}

LogicObjects == {Obj(EmptyOwn)} \cup {ObjX(v) : v \in {Bool(TRUE), Bool(FALSE), IntV(0)}}

InitLogic == InitEval(LogicTrees \cup ConditionalTrees, LogicObjects)
SpecLogic == InitLogic /\ [][NextEval]_vars

(***************************************************************************)
(* Logical operators and the conditional.                                  *)
(***************************************************************************)
\* Event i is the exit of the left operand of a logical operator `op`.
IsLeftExitOf(i, op) ==
  /\ events[i].ev = "exit"
  /\ Len(events[i].at) > 0
  /\ Last(events[i].at) = "left"
  /\ events[ParentVisit(i)].kind = "Binary"
  /\ events[ParentVisit(i)].op = op

\* Event i is the exit of an operand of a logical operator.
IsLogicalOperandExit(i) ==
  /\ events[i].ev = "exit"
  /\ Len(events[i].at) > 0
  /\ Last(events[i].at) \in {"left", "right"}
  /\ events[ParentVisit(i)].kind = "Binary"
  /\ events[ParentVisit(i)].op \in LogicalOps

\* C5: when the left operand of || evaluates to true, or the left operand
\* of && evaluates to false, the right operand is never evaluated: the
\* operator returns true (for ||) or false (for &&) right after its left
\* operand, whatever the right operand would do.
ShortCircuit ==
  \A i \in 1..Len(events) :
    \A op \in LogicalOps :
      (/\ IsLeftExitOf(i, op)
       /\ events[i].k = "ok"
       /\ events[i].v = Bool(op = "LOGICAL_OR"))
      => /\ i < Len(events)
         /\ events[i + 1] = [ev |-> "exit", at |-> Front(events[i].at),
                             k |-> "ok", v |-> Bool(op = "LOGICAL_OR")]

\* A logical operator returned although its right operand, evaluated on its
\* own, raises.
ShortCircuitWitness ==
  /\ outcome.k = "ok"
  /\ ast.k = "Binary"
  /\ ast.op \in LogicalOps
  /\ InterpreterEvaluate(bindings, ast.left).k = "ok"
  /\ InterpreterEvaluate(bindings, ast.left).v = Bool(ast.op = "LOGICAL_OR")
  /\ InterpreterEvaluate(bindings, ast.right).k = "err"
  /\ outcome.v = Bool(ast.op = "LOGICAL_OR")

\* C6: whenever an evaluated operand of && or || is not a boolean, the
\* operator raises an error instead of returning a value.
LogicalOperandsMustBeBoolean ==
  \A i \in 1..Len(events) :
    (/\ IsLogicalOperandExit(i)
     /\ events[i].k = "ok"
     /\ events[i].v.t # "bool")
    => events[MatchExit(ParentVisit(i))].k = "err"

\* C7: a Conditional evaluates its condition once and then exactly one
\* branch, the then-expression when the condition is true and the
\* else-expression otherwise, and returns or raises what that branch does;
\* the other branch is never visited.
ConditionalOneBranch ==
  \A i \in 1..Len(events) :
    (events[i].ev = "visit" /\ events[i].kind = "Conditional") =>
      LET p == events[i].at
          x == MatchExit(i)
          cx == MatchExit(i + 1)
          chosen == IF events[cx].v = Bool(TRUE) THEN "thenExpr" ELSE "otherwiseExpr"
          other == IF events[cx].v = Bool(TRUE) THEN "otherwiseExpr" ELSE "thenExpr"
      IN /\ IsVisit(i + 1, Append(p, "condition"))
         /\ Cardinality(VisitsBetween(i, x, Append(p, "condition"))) = 1
         /\ IF events[cx].k = "err"
            THEN /\ x = cx + 1
                 /\ events[x].k = "err"
                 /\ events[x].v = events[cx].v
            ELSE /\ IsVisit(cx + 1, Append(p, chosen))
                 /\ MatchExit(cx + 1) = x - 1
                 /\ events[x].k = events[x - 1].k
                 /\ events[x].v = events[x - 1].v
                 /\ VisitsBetween(i, x, Append(p, other)) = {}
                 /\ Cardinality(VisitsBetween(i, x, Append(p, chosen))) = 1

\* A Conditional returned the value of one branch although the other branch,
\* evaluated on its own, raises.
ConditionalOneBranchWitness ==
  /\ outcome.k = "ok"
  /\ ast.k = "Conditional"
  /\ \/ /\ InterpreterEvaluate(bindings, ast.condition).v = Bool(TRUE)
        /\ InterpreterEvaluate(bindings, ast.otherwiseExpr).k = "err"
     \/ /\ InterpreterEvaluate(bindings, ast.condition).k = "ok"
        /\ InterpreterEvaluate(bindings, ast.condition).v # Bool(TRUE)
        /\ InterpreterEvaluate(bindings, ast.thenExpr).k = "err"

(***************************************************************************)
(* Division and modulo.                                                    *)
(***************************************************************************)
ArithOps == {"DIVIDE", "MODULO"}

\* Numeric operands: integers, zero in its spellings, fractions, negations
\* and a variable.
NumAtoms ==
  {LitInt(n) : n \in 0..MaxInt}
    \cup {LitInt(10), LitDouble(0, 1), LitDouble(1, 2), LitDouble(5, 2),
          Unary("NEGATE", LitInt(0)), Unary("NEGATE", LitInt(1)),
          Unary("NEGATE", LitDouble(1, 2)), VarX}

NumInner == {LitInt(0), LitInt(1), LitInt(2), LitDouble(1, 2)}

ArithTrees ==
  LET flat == {Binary(op, l, r) : op \in ArithOps, l \in NumAtoms, r \in NumAtoms}
  IN flat
       \cup {Call(NoExpr, S_type, <<e>>, FALSE) : e \in flat}
       \cup {Binary("DIVIDE", Binary(op, a, b), c) :
               op \in ArithOps, a \in NumInner, b \in NumInner, c \in NumInner}
       \cup {Binary("DIVIDE", a, Binary(op, b, c)) :
               op \in ArithOps, a \in NumInner, b \in NumInner, c \in NumInner}

ArithObjects == {ObjX(v) : v \in {IntV(0), IntV(4), Num(-3, 2), Str(<<"a">>)}}

InitArith == InitEval(ArithTrees, ArithObjects)
SpecArith == InitArith /\ [][NextEval]_vars

\* Event i is the exit of a Binary node with operator op.
IsExitOfOp(i, op) ==
  /\ events[i].ev = "exit"
  /\ events[MatchVisit(i)].kind = "Binary"
  /\ events[MatchVisit(i)].op = op

\* C8: every value that a division of two numbers returns is classified as
\* double by typeOf, also when the quotient is a whole number, and type()
\* applied to a division returns "double".
DivisionYieldsDouble ==
  /\ \A i \in 1..Len(events) :
       (IsExitOfOp(i, "DIVIDE") /\ events[i].k = "ok") => typeOf(events[i].v) = T_double
  /\ (/\ outcome.k = "ok"
      /\ ast.k = "Call"
      /\ ast.functionName = S_type
      /\ ast.args[1].op = "DIVIDE") => outcome.v = Str(T_double)

\* C9: when both operands of / or % evaluate to numbers, a zero divisor
\* makes the operator raise an EvaluationError that names division or
\* modulo by zero, and a non-zero divisor makes it return a value.
DivisionByZeroRaises ==
  \A i \in 1..Len(events) :
    (/\ events[i].ev = "visit"
     /\ events[i].kind = "Binary"
     /\ events[i].op \in ArithOps) =>
      LET x == MatchExit(i)
          le == MatchExit(i + 1)
          re == x - 1
      IN (/\ events[le].k = "ok"
          /\ IsNumber(events[le].v)
          /\ IsExit(re, Append(events[i].at, "right"))
          /\ events[re].k = "ok"
          /\ IsNumber(events[re].v)) =>
           IF NumIsZero(events[re].v)
           THEN /\ events[x].k = "err"
                /\ events[x].v.cls = "EvaluationError"
                /\ events[x].v.msg = (IF events[i].op = "DIVIDE"
                                      THEN "Division by zero" ELSE "Modulo by zero")
           ELSE events[x].k = "ok"

\* A division of a non-zero fraction by a zero that a negation produced
\* raised the error.
DivisionByZeroWitness ==
  /\ outcome.k = "err"
  /\ outcome.cls = "EvaluationError"
  /\ outcome.msg = "Division by zero"
  /\ ast.k = "Binary"
  /\ ast.op = "DIVIDE"
  /\ ast.left = LitDouble(5, 2)
  /\ ast.right = Unary("NEGATE", LitInt(0))

(***************************************************************************)
(* Equality.                                                               *)
(***************************************************************************)
\* The longest list literal of a tree.
MaxListLen == 2

KeyA == <<"a">>
KeyB == <<"b">>
Entry(key, value) == MapEntry(LitStr(key), value)
MapOf(entries) == MapExpression(entries)

\* All list literals of at most MaxListLen elements drawn from elems.
ListsOf(elems) ==
  {ListExpression(q) : q \in UNION {[1..n -> elems] : n \in 0..MaxListLen}}

EqScalars ==
  {LitNull, LitBool(TRUE), LitBool(FALSE), LitInt(0), LitInt(1), LitDouble(1, 1),
   LitStr(<<>>), LitStr(KeyA), Identifier(S_toString), VarX}

EqMaps ==
  {MapOf(<<>>),
   MapOf(<<Entry(KeyA, LitInt(1))>>),
   MapOf(<<Entry(KeyA, LitInt(2))>>),
   MapOf(<<Entry(KeyB, LitInt(1))>>),
   MapOf(<<Entry(KeyA, LitInt(1)), Entry(KeyB, LitInt(2))>>),
   MapOf(<<Entry(KeyB, LitInt(2)), Entry(KeyA, LitInt(1))>>),
   MapOf(<<Entry(KeyA, ListExpression(<<LitInt(1)>>))>>),
   MapOf(<<Entry(KeyA, MapOf(<<Entry(KeyA, LitInt(1))>>))>>),
   MapOf(<<Entry(S_toString, Identifier(S_toString))>>),
   MapOf(<<Entry(S_proto, MapOf(<<Entry(KeyA, LitInt(1))>>)), Entry(KeyB, LitInt(2))>>)}

EqOperands ==
  EqScalars \cup EqMaps
    \cup ListsOf({LitInt(1), LitInt(2)})
    \cup {ListExpression(<<ListExpression(<<LitInt(1)>>)>>),
          ListExpression(<<MapOf(<<Entry(KeyA, LitInt(1))>>)>>)}

EqTrees ==
  {Binary(op, l, r) : op \in {"EQUAL", "NOT_EQUAL"}, l \in EqOperands, r \in EqOperands}

EqObjects ==
  {Obj(EmptyOwn), ObjX(IntV(1)), ObjX(List(<<IntV(1)>>)),
   ObjX(Obj([key \in {KeyA} |-> IntV(1)]))}

InitEq == InitEval(EqTrees, EqObjects)
SpecEq == InitEq /\ [][NextEval]_vars

\* Deep structural equality as stated: lists by length and elements, maps
\* by key set and the values per key, anything else by value, and values of
\* different types unequal.
RECURSIVE StructurallyEqual(_, _)
StructurallyEqual(left, right) ==
  IF left.t = "list" /\ right.t = "list" THEN
    /\ Len(left.l) = Len(right.l)
    /\ \A i \in 1..Len(left.l) : StructurallyEqual(left.l[i], right.l[i])
  ELSE IF left.t = "obj" /\ right.t = "obj" THEN
    /\ DOMAIN left.own = DOMAIN right.own
    /\ \A key \in DOMAIN left.own : StructurallyEqual(left.own[key], right.own[key])
  ELSE left = right

\* C10: == never raises and returns true exactly when its operands are
\* structurally equal: lists of the same length with equal elements, maps
\* with the same key set and equal values per key, false for different types.
EqualityIsStructural ==
  \A i \in 1..Len(events) :
    (/\ events[i].ev = "visit"
     /\ events[i].kind = "Binary"
     /\ events[i].op = "EQUAL") =>
      LET x == MatchExit(i)
          le == MatchExit(i + 1)
          re == x - 1
      IN (/\ events[le].k = "ok"
          /\ IsExit(re, Append(events[i].at, "right"))
          /\ events[re].k = "ok") =>
           /\ events[x].k = "ok"
           /\ events[x].v = Bool(StructurallyEqual(events[le].v, events[re].v))

(***************************************************************************)
(* Ordering: <, <=, > and >=.                                              *)
(***************************************************************************)
RelationalOps == {"LESS", "LESS_EQUAL", "GREATER", "GREATER_EQUAL"}

\* Lists of numbers and nulls, nested lists, a list longer than the others
\* that one of them is a prefix of, and lists with elements of other types.
OrderLists ==
  ListsOf({LitInt(1), LitInt(2), LitNull})
    \cup {ListExpression(<<LitInt(1), LitInt(2), LitInt(3)>>),
          ListExpression(<<ListExpression(<<LitInt(1)>>)>>),
          ListExpression(<<ListExpression(<<LitInt(1), LitInt(2)>>)>>),
          ListExpression(<<ListExpression(<<>>), LitInt(1)>>),
          ListExpression(<<LitInt(1), LitStr(KeyA)>>),
          ListExpression(<<LitStr(KeyA)>>),
          ListExpression(<<LitDouble(3, 2), LitInt(1)>>)}

\* Operands of every other type.
OrderScalars ==
  {LitNull, LitBool(TRUE), LitBool(FALSE), LitInt(1), LitInt(2), LitDouble(1, 2),
   LitStr(KeyA), LitStr(KeyB), MapOf(<<>>), MapOf(<<Entry(KeyA, LitInt(1))>>), VarX}

OrderTrees ==
  {Binary(op, l, r) : op \in RelationalOps,
                      l \in OrderLists \cup OrderScalars, r \in OrderLists \cup OrderScalars}

OrderObjects == {ObjX(IntV(1)), ObjX(List(<<IntV(1)>>)), ObjX(Obj(EmptyOwn))}

InitOrder == InitEval(OrderTrees, OrderObjects)
SpecOrder == InitOrder /\ [][NextEval]_vars

\* The least element of a non-empty set of integers.
Least(S) == CHOOSE i \in S : \A j \in S : i <= j

\* The order as stated: null before every other value, numbers by value, and
\* lists by the first index at which their elements are not equal in the
\* order, the shorter list first when there is no such index.  "lt", "eq"
\* or "gt", and "none" where the statement gives no order.
RECURSIVE Ordering(_, _)
Ordering(a, b) ==
  IF a.t = "null" THEN (IF b.t = "null" THEN "eq" ELSE "lt")
  ELSE IF b.t = "null" THEN "gt"
  ELSE IF IsNumber(a) /\ IsNumber(b)
  THEN (IF NumLess(a, b) THEN "lt" ELSE IF NumLess(b, a) THEN "gt" ELSE "eq")
  ELSE IF IsArray(a) /\ IsArray(b)
  THEN LET unequal == {i \in 1..Min(Len(a.l), Len(b.l)) : Ordering(a.l[i], b.l[i]) # "eq"}
       IN IF unequal # {} THEN Ordering(a.l[Least(unequal)], b.l[Least(unequal)])
          ELSE IF Len(a.l) < Len(b.l) THEN "lt"
          ELSE IF Len(a.l) > Len(b.l) THEN "gt"
          ELSE "eq"
  ELSE "none"

\* What the operator op returns on two values that are in the order `ord`.
Holds(op, ord) ==
  CASE op = "LESS" -> ord = "lt"
    [] op = "LESS_EQUAL" -> ord \in {"lt", "eq"}
    [] op = "GREATER" -> ord = "gt"
    [] OTHER -> ord \in {"gt", "eq"}

\* C11: <, <=, > and >= on two lists return what the lexicographic order
\* gives: the order of the elements at the first index where they are
\* unequal, the shorter list less when one is a prefix of the other, and
\* null before every non-null value.
ListOrderIsLexicographic ==
  \A i \in 1..Len(events) :
    (/\ events[i].ev = "visit"
     /\ events[i].kind = "Binary"
     /\ events[i].op \in RelationalOps) =>
      LET x == MatchExit(i)
          le == MatchExit(i + 1)
          re == x - 1
      IN (/\ events[le].k = "ok"
          /\ IsExit(re, Append(events[i].at, "right"))
          /\ events[re].k = "ok"
          /\ \/ IsArray(events[le].v) /\ IsArray(events[re].v)
             \/ events[le].v.t = "null"
             \/ events[re].v.t = "null"
          /\ Ordering(events[le].v, events[re].v) # "none") =>
           /\ events[x].k = "ok"
           /\ events[x].v = Bool(Holds(events[i].op, Ordering(events[le].v, events[re].v)))

\* A list was found less than a longer list that it is a prefix of, and a
\* list greater than one that is longer but has a smaller element first.
ListOrderWitness ==
  /\ outcome.k = "ok"
  /\ outcome.v = Bool(TRUE)
  /\ ast.k = "Binary"
  /\ \/ /\ ast.op = "LESS"
        /\ ast.left = ListExpression(<<LitInt(1), LitInt(2)>>)
        /\ ast.right = ListExpression(<<LitInt(1), LitInt(2), LitInt(3)>>)
     \/ /\ ast.op = "GREATER"
        /\ ast.left = ListExpression(<<LitInt(2)>>)
        /\ ast.right = ListExpression(<<LitInt(1), LitInt(2), LitInt(3)>>)

\* Whether compare supports the pairing of the types of two non-null values.
SupportedPairing(a, b) ==
  \/ IsNumber(a) /\ IsNumber(b)
  \/ IsString(a) /\ IsString(b)
  \/ IsBoolean(a) /\ IsBoolean(b)
  \/ IsArray(a) /\ IsArray(b)

\* C12: <, <=, > and >= on two non-null operands whose types the comparator
\* does not pair (a number with a string, a boolean with a number, a map
\* with a map) raise an EvaluationError.
IncomparableRaisesEvaluationError ==
  \A i \in 1..Len(events) :
    (/\ events[i].ev = "visit"
     /\ events[i].kind = "Binary"
     /\ events[i].op \in RelationalOps) =>
      LET x == MatchExit(i)
          le == MatchExit(i + 1)
          re == x - 1
      IN (/\ events[le].k = "ok"
          /\ IsExit(re, Append(events[i].at, "right"))
          /\ events[re].k = "ok"
          /\ events[le].v.t # "null"
          /\ events[re].v.t # "null"
          /\ ~SupportedPairing(events[le].v, events[re].v)) =>
           /\ events[x].k = "err"
           /\ events[x].v.cls = "EvaluationError"

(***************************************************************************)
(* Identifiers and field selection.                                        *)
(***************************************************************************)
\* Names that are bound, unbound, and that every plain object inherits.
SelectNames == {<<"x">>, <<"y">>, KeyA, S_toString, S_constructor, S_proto, S_length}

\* Targets of every type.
SelectOperands ==
  {NoExpr, LitNull, LitInt(1), LitStr(KeyA), LitBool(TRUE), ListExpression(<<>>),
   ListExpression(<<LitInt(1), LitInt(2)>>), MapOf(<<>>),
   MapOf(<<Entry(KeyA, LitInt(1))>>), MapOf(<<Entry(KeyA, LitNull)>>),
   Struct(Str(<<"T">>), <<FieldInitializer(KeyA, LitInt(1))>>), VarX, VarY}

SelectTrees ==
  {Identifier(name) : name \in SelectNames}
    \cup {Select(operand, field, isTest) :
            operand \in SelectOperands, field \in SelectNames, isTest \in BOOLEAN}
    \cup {Select(Select(VarX, KeyA, inner), field, isTest) :
            field \in {KeyA, S_toString}, inner \in BOOLEAN, isTest \in BOOLEAN}

SelectObjects ==
  {Obj(EmptyOwn), ObjX(IntV(1)), ObjX(Null), ObjX(List(<<IntV(1)>>)),
   ObjX(Obj([key \in {KeyA} |-> IntV(1)])),
   ObjX(Obj([key \in {KeyA} |-> Obj(EmptyOwn)]))}

InitSelect == InitEval(SelectTrees, SelectObjects)
SpecSelect == InitSelect /\ [][NextEval]_vars

\* The evaluate call was on a Select with an operand, and the operand
\* evaluated to a value: the event before the last is its exit.
SelectedFrom(isTest) ==
  /\ outcome.k # "none"
  /\ ast.k = "Select"
  /\ ast.isTest = isTest
  /\ ast.operand # NoExpr
  /\ events[Len(events) - 1].k = "ok"

\* The value the operand of the Select evaluated to.
SelectTarget == events[Len(events) - 1].v

\* A map or struct value.
IsMap(v) == v.t = "obj"

\* C13: an Identifier evaluates to the value the caller's bindings hold for
\* its name, and raises the 'undefined variable' EvaluationError for every
\* name the bindings do not contain.
IdentifierLookup ==
  (ast.k = "Identifier" /\ outcome.k # "none") =>
    IF ast.name \in DOMAIN bindings.own
    THEN /\ outcome.k = "ok"
         /\ outcome.v = bindings.own[ast.name]
    ELSE /\ outcome.k = "err"
         /\ outcome.cls = "EvaluationError"
         /\ outcome.msg = "Undefined variable"

\* C14: in normal mode a Select whose target evaluated to a value that is
\* neither null nor a map or struct (a list, a string, a number, a boolean)
\* raises an EvaluationError, whatever the field name.
SelectFromNonMapRaises ==
  (/\ SelectedFrom(FALSE)
   /\ ~IsNullish(SelectTarget)
   /\ ~IsMap(SelectTarget)) =>
    /\ outcome.k = "err"
    /\ outcome.cls = "EvaluationError"

\* C15: a Select in presence-test mode does not raise and yields false when
\* its target evaluated to null or to a map or struct without the field, and
\* yields true when the map or struct has the field.
PresenceTest ==
  (/\ SelectedFrom(TRUE)
   /\ SelectTarget.t = "null" \/ IsMap(SelectTarget)) =>
    /\ outcome.k = "ok"
    /\ outcome.v = Bool(IsMap(SelectTarget) /\ ast.field \in DOMAIN SelectTarget.own)

(***************************************************************************)
(* Macros and comprehensions.                                              *)
(***************************************************************************)
KeyX == <<"x">>
KeyY == <<"y">>
KeyAcc == <<"a","c","c">>

\* Names a macro can take as its loop variable: bound, unbound, and two that
\* every plain object inherits.
LoopVariables == {KeyX, KeyY, S_toString, S_proto}

MacroTargets == ListsOf({LitInt(1), LitInt(2), LitNull}) \cup {VarX}

\* Bodies over the loop variable v: returning, raising, comparing, and a
\* nested macro over the same variable.
MacroBodies(v) ==
  {Identifier(v), LitBool(TRUE), DivByZero, VarY,
   Binary("EQUAL", Identifier(v), LitInt(1)),
   Call(ListExpression(<<LitInt(2)>>), S_map, <<Identifier(v), Identifier(v)>>, TRUE)}

MacroTrees ==
  UNION {{Call(target, name, <<Identifier(v), body>>, TRUE) :
            target \in MacroTargets, name \in MacroNames, body \in MacroBodies(v)} :
          v \in LoopVariables}

ComprehensionTrees ==
  UNION {{Comprehension(v, range, acc, LitInt(0), condition,
                        Binary("ADD", Identifier(acc), LitInt(1)), Identifier(acc)) :
            range \in {ListExpression(<<LitInt(1), LitInt(2)>>),
                       ListExpression(<<LitNull>>), VarX},
            acc \in {KeyAcc, KeyX},
            condition \in {LitBool(TRUE), DivByZero,
                           Binary("EQUAL", Identifier(v), LitInt(1))}} :
          v \in LoopVariables}

MacroObjects == {Obj(EmptyOwn), ObjX(IntV(1)), ObjX(List(<<IntV(1), IntV(2)>>))}

InitMacro == InitEval(MacroTrees \cup ComprehensionTrees, MacroObjects)
SpecMacro == InitMacro /\ [][NextEval]_vars

\* Two environments hold the same bindings as the Interpreter sees them:
\* the same names are bound (`name in variables`) to the same values.
SameBindings(a, b) ==
  \A name \in DOMAIN a.own \cup DOMAIN b.own \cup ObjectPrototypeKeys :
    /\ JsIn(name, a) = JsIn(name, b)
    /\ JsIn(name, a) => JsGet(a, name) = JsGet(b, name)

\* C1: after every macro call and every Comprehension, however it ends, the
\* environment holds the bindings it held before the call.
MacroRestoresBindings ==
  \A i \in 1..Len(events) :
    events[i].ev = "macro" => SameBindings(events[i].before, events[i].after)

(***************************************************************************)
(* The quantifier macros: all, exists and existsOne.                       *)
(***************************************************************************)
\* The longest list a quantifier macro runs over.
MaxQuantifiedLen == 3

QuantifiedLists ==
  {ListExpression(q) : q \in UNION {[1..n -> {LitInt(1), LitInt(2)}] : n \in 0..MaxQuantifiedLen}}

\* Predicates over x: true of 1, true of 2, constant, not a boolean, and two
\* that divide by zero when x is 2 and are true, or false, when x is 1.
QuantifiedBodies ==
  {Binary("EQUAL", VarX, LitInt(1)), Binary("EQUAL", VarX, LitInt(2)),
   LitBool(TRUE), LitBool(FALSE), VarX,
   Binary("EQUAL", Binary("DIVIDE", LitInt(1), Binary("SUBTRACT", LitInt(2), VarX)),
          LitInt(1)),
   Binary("EQUAL", Binary("DIVIDE", LitInt(1), Binary("SUBTRACT", LitInt(2), VarX)),
          LitInt(0))}

QuantifierTrees ==
  {Call(target, name, <<VarX, body>>, TRUE) :
     target \in QuantifiedLists \cup {VarY}, name \in {S_all, S_exists, S_existsOne},
     body \in QuantifiedBodies}

QuantifierObjects ==
  {Obj(EmptyOwn), ObjX(IntV(2)),
   Obj([key \in {<<"y">>} |-> List(<<IntV(2), IntV(1), IntV(1)>>)])}

InitQuantifier == InitEval(QuantifierTrees, QuantifierObjects)
SpecQuantifier == InitQuantifier /\ [][NextEval]_vars

\* The evaluate call was of the macro `name` on a target that evaluated to a
\* list.
Quantified(name) ==
  /\ outcome.k # "none"
  /\ ast.k = "Call"
  /\ ast.functionName = name
  /\ \E j \in 1..Len(events) :
       IsExit(j, <<"target">>) /\ events[j].k = "ok" /\ IsArray(events[j].v)

\* The list the macro ran over.
QuantifiedList ==
  events[CHOOSE j \in 1..Len(events) : IsExit(j, <<"target">>)].v.l

\* The events at which an evaluation of the predicate ended, and those among
\* them at which it returned true, returned something else, or raised.
PredicateExits == {j \in 1..Len(events) : IsExit(j, <<"arg2">>)}
PredicateTrue ==
  {j \in PredicateExits : events[j].k = "ok" /\ events[j].v = Bool(TRUE)}
PredicateNotTrue ==
  {j \in PredicateExits : events[j].k = "ok" /\ events[j].v # Bool(TRUE)}
PredicateRaised == {j \in PredicateExits : events[j].k = "err"}

\* The predicate was evaluated on the elements of the list in order, each at
\* most once: the n-th evaluation is on the n-th element.
InListOrder ==
  LET iterations == {j \in 1..Len(events) : events[j].ev = "iterate" /\ events[j].at = <<>>}
  IN /\ Cardinality(iterations) = Cardinality(PredicateExits)
     /\ Cardinality(iterations) <= Len(QuantifiedList)
     /\ \A j \in iterations :
          /\ events[j].i = 1 + Cardinality({h \in iterations : h < j})
          /\ events[j].item = QuantifiedList[events[j].i]

\* No predicate was evaluated after event j.
LastEvaluation(j) == \A h \in PredicateExits : h <= j

\* C16: existsOne returns true iff exactly one element makes the predicate
\* true; it is false on the empty list, and it returns false at the second
\* element that makes the predicate true, without evaluating the predicate
\* on the elements after it.
ExistsOneCounts ==
  (Quantified(S_existsOne) /\ PredicateRaised = {}) =>
    /\ InListOrder
    /\ outcome.k = "ok"
    /\ IF Cardinality(PredicateTrue) >= 2
       THEN /\ outcome.v = Bool(FALSE)
            /\ Cardinality(PredicateTrue) = 2
            /\ \E j \in PredicateTrue : LastEvaluation(j)
       ELSE /\ outcome.v = Bool(Cardinality(PredicateTrue) = 1)
            /\ Cardinality(PredicateExits) = Len(QuantifiedList)

\* existsOne returned false on a list of three elements after two
\* evaluations of the predicate, both true.
ExistsOneWitness ==
  /\ Quantified(S_existsOne)
  /\ Len(QuantifiedList) = 3
  /\ Cardinality(PredicateExits) = 2
  /\ Cardinality(PredicateTrue) = 2
  /\ outcome = [k |-> "ok", v |-> Bool(FALSE), via |-> outcome.via]

\* C17: all returns false at the first element whose predicate result is
\* not true, exists returns true at the first element whose predicate
\* result is true, neither evaluates the predicate on a later element, and
\* on a list with no such element (the empty list too) all returns true and
\* exists returns false.
AllExistsStopEarly ==
  /\ Quantified(S_all) =>
       /\ InListOrder
       /\ \A j \in PredicateNotTrue \cup PredicateRaised : LastEvaluation(j)
       /\ PredicateRaised = {} =>
            /\ outcome.k = "ok"
            /\ outcome.v = Bool(PredicateNotTrue = {})
            /\ PredicateNotTrue = {} => Cardinality(PredicateExits) = Len(QuantifiedList)
  /\ Quantified(S_exists) =>
       /\ InListOrder
       /\ \A j \in PredicateTrue \cup PredicateRaised : LastEvaluation(j)
       /\ PredicateRaised = {} =>
            /\ outcome.k = "ok"
            /\ outcome.v = Bool(PredicateTrue # {})
            /\ PredicateTrue = {} => Cardinality(PredicateExits) = Len(QuantifiedList)

\* all returned false, or exists returned true, at the first element of a
\* list whose second element makes the predicate divide by zero.
AllExistsWitness ==
  /\ outcome.k = "ok"
  /\ ast.k = "Call"
  /\ ast.target = ListExpression(<<LitInt(1), LitInt(2)>>)
  /\ ast.args[2].k = "Binary"
  /\ ast.args[2].left.k = "Binary"
  /\ Cardinality(PredicateExits) = 1
  /\ \/ ast.functionName = S_all /\ outcome.v = Bool(FALSE)
     \/ ast.functionName = S_exists /\ outcome.v = Bool(TRUE)

(***************************************************************************)
(* Program.evaluate and the caller's bindings.                             *)
(***************************************************************************)
ProgramArgs == {<<>>, <<LitInt(1)>>, <<LitInt(1), LitInt(2)>>}

ProgramTrees ==
  {Call(VarX, m, args, FALSE) :
     m \in {S_push, S_toString, S_valueOf, S_size, S_contains}, args \in ProgramArgs}
    \cup {Call(target, name, <<VarX, body>>, TRUE) :
            target \in {VarX, ListExpression(<<LitInt(1), LitInt(2)>>)},
            name \in MacroNames,
            body \in {VarX, DivByZero, Binary("EQUAL", VarX, LitInt(1))}}
    \cup {Call(ListExpression(<<LitInt(1), LitInt(2)>>), S_map,
               <<VarY, Call(VarX, S_push, <<VarY>>, FALSE)>>, TRUE)}

ProgramObjects ==
  {Obj(EmptyOwn), ObjX(IntV(1)), ObjX(Str(KeyA))}
    \cup {ObjX(List(q)) : q \in UNION {[1..n -> {IntV(1), IntV(2)}] : n \in 0..MaxListLen}}

InitProgram == InitEval(ProgramTrees, ProgramObjects)
SpecProgram == InitProgram /\ [][NextEval]_vars

\* C2: a Program.evaluate(bindings) call leaves the caller's bindings with
\* the keys and the values they had before the call, whether it returns or
\* raises.
ProgramKeepsBindings ==
  [][(calls' = calls + 1 /\ outcome'.via = "Program") => bindings' = bindings]_vars

(***************************************************************************)
(* One Lexer under next() and peek(count) calls.                           *)
(***************************************************************************)
\* The longest source text.
MaxInputLen == 3
\* How many next() calls and how many peek() calls a behaviour makes, and
\* the largest count given to peek.
MaxNextCalls == 3
MaxPeekCalls == 2
MaxPeekCount == 2

\* The variables after next() returned or threw r.out.
NextReturned(r) ==
  /\ lexer' = r.lx
  /\ history' = Append(history, r.out)
  /\ UNCHANGED <<evalVars, input, peeks, parseVars>>

\* next() on the Lexer
LexerNext ==
  /\ Len(history) < MaxNextCalls
  /\ NextReturned(next(input, lexer))

\* The variables after peek(count) returned or threw r.out; `at` is the
\* number of next() calls made before.
PeekReturned(count, r) ==
  /\ lexer' = r.lx
  /\ peeks' = Append(peeks, [count |-> count, at |-> Len(history), out |-> r.out])
  /\ UNCHANGED <<evalVars, input, history, parseVars>>

\* peek(count) on the Lexer
LexerPeek ==
  /\ Len(peeks) < MaxPeekCalls
  /\ \E count \in 1..MaxPeekCount : PeekReturned(count, peek(input, lexer, count))

NextLexer == LexerNext \/ LexerPeek

\* Characters that between them start, continue and end every kind of token:
\* a letter, a digit, a blank, a line end, half of a two-character
\* operator, a quote and a dot.
LexerChars == {"a", "1", " ", "\n", "=", "\"", "."}

InputsOver(chars, maxLen) == UNION {[1..n -> chars] : n \in 0..maxLen}

InitLexer ==
  /\ input \in InputsOver(LexerChars, MaxInputLen)
  /\ LexIdle
  /\ EvalIdle
  /\ ParseIdle
SpecLexer == InitLexer /\ [][NextLexer]_vars

\* The first n outcomes of next() on a Lexer that peek is never called on.
RECURSIVE NextOnly(_, _, _)
NextOnly(text, lx, n) ==
  IF n = 0 THEN <<>>
  ELSE LET r == next(text, lx) IN <<r.out>> \o NextOnly(text, r.lx, n - 1)

\* The tokens among outcomes, in order.
RECURSIVE TokensOf(_)
TokensOf(outcomes) ==
  IF outcomes = <<>> THEN <<>>
  ELSE (IF Head(outcomes).k = "ok" THEN <<Head(outcomes).tok>> ELSE <<>>)
         \o TokensOf(Tail(outcomes))

IsPrefix(a, b) == Len(a) <= Len(b) /\ a = SubSeq(b, 1, Len(a))

\* C3: under any interleaving of next() and peek(count) calls, a peek(count)
\* that returned a token returned the token that the count-th next() call
\* after it returns, and the tokens that next() returns are, in order, the
\* tokens next() returns on a Lexer of the same input that peek is never
\* called on.
PeekConsumesNothing ==
  /\ \A i \in 1..Len(peeks) :
       (peeks[i].out.k = "ok" /\ peeks[i].at + peeks[i].count <= Len(history)) =>
         history[peeks[i].at + peeks[i].count] = peeks[i].out
  /\ IsPrefix(TokensOf(history),
              TokensOf(NextOnly(input, NewLexer,
                                MaxNextCalls + MaxPeekCalls * MaxPeekCount)))

\* A peek(2) made after a next() call returned a token that is not the end
\* of input, and the two next() calls after it have been made.
PeekConsumesNothingWitness ==
  \E i \in 1..Len(peeks) :
    /\ peeks[i].count = 2
    /\ peeks[i].at >= 1
    /\ peeks[i].out.k = "ok"
    /\ peeks[i].out.tok.type # "EOF"
    /\ peeks[i].at + 2 <= Len(history)

(***************************************************************************)
(* One Parser: new Parser(input) and then parse().                         *)
(***************************************************************************)
Thrown(r, from) ==
  [k |-> "err", from |-> from, cls |-> r.cls, msg |-> r.msg, line |-> r.line,
   column |-> r.column]

\* new Parser(input)
\* The parser variable after the constructor returned or threw c.
Constructing(c) ==
  /\ parser' = IF c.k = "ok" THEN [k |-> "made", ps |-> c.ps] ELSE Thrown(c, "constructor")
  /\ UNCHANGED <<evalVars, input, lexVars, parsed>>

\* new Parser(input)
ParserNew ==
  /\ parser.k = "none"
  /\ Constructing(NewParser(input))

\* The variables after parse() returned or threw r.
Parsing(r) ==
  /\ parsed' = IF r.k = "ok" THEN [k |-> "ok", from |-> "parse", ast |-> r.v]
               ELSE Thrown(r, "parse")
  /\ parser' = [parser EXCEPT !.ps = r.ps]
  /\ UNCHANGED <<evalVars, input, lexVars>>

\* parser.parse()
ParserParse ==
  /\ parser.k = "made"
  /\ parsed.k = "none"
  /\ Parsing(parse(parser.ps))

NextParser == ParserNew \/ ParserParse

\* Characters of the shortest expressions and of their failures.
ParserChars == {"a", "1", "+", "(", ")", ",", "."}

\* Longer texts, one or more for each form of the grammar.
ParserTexts ==
  {<<"1", " ", "2">>,
   <<"a", " ", "?", " ", "1", " ", ":", " ", "2">>,
   <<"[", "1", ",", " ", "a", ",", "]">>,
   <<"{", "\"", "a", "\"", ":", " ", "1", "}">>,
   <<"{", "a", ":", " ", "1", "}">>,
   <<"a", ".", "b", "{", "c", ":", " ", "1", "}">>,
   <<"a", ".", "f", "(", "1", ")", "[", "0", "]">>,
   <<"\"", "\\", "U", "0", "0", "1", "1", "0", "0", "0", "0", "\"">>,
   <<"\"", "\\", "U", "0", "0", "1", "0", "F", "F", "F", "F", "\"">>,
   <<"\"", "a", "\"", " ", "\"", "b", "\"">>,
   <<"1", " ", "=", " ", "2">>,
   <<"!", "-", "a">>,
   <<"{", "1", ":", " ", "2", ",", ",", "}">>,
   <<"a", ".", "b", ".", "c">>,
   <<"x", ".", "m", "a", "p", "(", "y", ",", " ", "y", ")">>,
   <<"'", "a">>,
   <<"1", " ", "?", " ", "2">>}

InitParser ==
  /\ input \in InputsOver(ParserChars, MaxInputLen) \cup ParserTexts
  /\ LexIdle
  /\ EvalIdle
  /\ ParseIdle
SpecParser == InitParser /\ [][NextParser]_vars

\* C4: parse() returns a tree only with the current token at the end of the
\* input, and otherwise raises a ParseError that carries a line and a column.
ParseAllOrParseError ==
  parsed.k # "none" =>
    \/ /\ parsed.k = "ok"
       /\ parser.ps.current.type = "EOF"
    \/ /\ parsed.k = "err"
       /\ parsed.cls = "ParseError"
       /\ parsed.line >= 1
       /\ parsed.column >= 1

(***************************************************************************)
(* Brace literals: maps and structs.                                       *)
(***************************************************************************)
\* The longest text over BraceChars given to the parser.
MaxBraceLen == 5

\* The most opening braces in such a text.
MaxBraces == 1

BraceChars == {"{", "}", "a", ":", "1", ","}

\* The texts over BraceChars within the two bounds.
BraceInputs ==
  {text \in InputsOver(BraceChars, MaxBraceLen) :
     Cardinality({j \in 1..Len(text) : text[j] = "{"}) <= MaxBraces}

\* The literals the documentation names, with qualified and nested ones.
BraceTexts ==
  {<<"{", "\"", "a", "\"", ":", "1", "}">>,
   <<"P", "e", "r", "s", "o", "n", "{", "a", ":", "1", "}">>,
   <<"T", "{", "}">>,
   <<"T", "{", "a", ":", "1", ",", "}">>,
   <<"T", "{", "1", ":", "1", "}">>,
   <<"T", "{", "\"", "a", "\"", ":", "1", "}">>,
   <<"a", ".", "b", "{", "}">>,
   <<"a", ".", "b", "{", "c", ":", "1", "}">>,
   <<"{", "a", ":", "1", "}", ".", "a">>,
   <<"{", "a", " ", ":", "1", "}">>,
   <<"{", "(", "a", ")", ":", "1", "}">>,
   <<"{", "a", ".", "b", ":", "1", "}">>,
   <<"{", "a", ":", "{", "}", "}">>,
   <<"{", "1", ":", "T", "{", "}", "}">>,
   <<"{", "}", " ", "=", "=", " ", "{", "}">>}

InitBrace ==
  /\ input \in BraceInputs \cup BraceTexts
  /\ LexIdle
  /\ EvalIdle
  /\ ParseIdle
SpecBrace == InitBrace /\ [][NextParser]_vars

\* The first n tokens of the text, as far as the lexer returns them.
RECURSIVE TokensFrom(_, _, _)
TokensFrom(text, lx, n) ==
  IF n = 0 THEN <<>>
  ELSE LET r == next(text, lx)
       IN IF r.out.k = "err" THEN <<>>
          ELSE <<r.out.tok>> \o TokensFrom(text, r.lx, n - 1)

\* The types of the first n tokens of the text, padded with EOF.
TokenTypes(text, n) ==
  LET tokens == TokensFrom(text, NewLexer, n)
  IN [j \in 1..n |-> IF j <= Len(tokens) THEN tokens[j].type ELSE "EOF"]

\* The node a tree starts with: the one its first token belongs to.
RECURSIVE Leftmost(_)
Leftmost(e) ==
  CASE e.k = "Binary" -> Leftmost(e.left)
    [] e.k = "Conditional" -> Leftmost(e.condition)
    [] e.k \in {"Select", "Index"} /\ e.operand # NoExpr -> Leftmost(e.operand)
    [] e.k = "Call" /\ e.target # NoExpr -> Leftmost(e.target)
    [] OTHER -> e

\* The type name that precedes the first brace of the text: none, a name,
\* or a qualified name.
RECURSIVE NameBeforeBrace(_, _)
NameBeforeBrace(text, j) ==
  IF j > Len(text) \/ text[j] = "{" THEN <<>>
  ELSE <<text[j]>> \o NameBeforeBrace(text, j + 1)

\* C18: a brace literal is parsed as a Struct iff a type name precedes the
\* brace or its first entry starts with a bare identifier immediately
\* followed by a colon, and as a Map otherwise; the Struct carries the type
\* name, or none.
BraceLiteralKind ==
  LET types == TokenTypes(input, 5)
      literal == Leftmost(parsed.ast)
      untyped == types[1] = "LBRACE"
      typed == types[1] = "IDENTIFIER" /\ types[2] = "LBRACE"
      qualified == /\ types[1] = "IDENTIFIER" /\ types[2] = "DOT"
                   /\ types[3] = "IDENTIFIER" /\ types[4] = "LBRACE"
  IN (parsed.k = "ok" /\ (untyped \/ typed \/ qualified)) =>
       /\ literal.k \in {"Struct", "Map"}
       /\ literal.k = "Struct" <=>
            \/ typed \/ qualified
            \/ untyped /\ types[2] = "IDENTIFIER" /\ types[3] = "COLON"
       /\ literal.k = "Struct" =>
            literal.typeName = IF untyped THEN Null ELSE Str(NameBeforeBrace(input, 1))

\* Each of the five forms was parsed: a map, a struct with no type name, a
\* struct with a type name, the empty map and the empty typed struct.
BraceLiteralWitness ==
  /\ parsed.k = "ok"
  /\ \/ input = <<"{", "\"", "a", "\"", ":", "1", "}">> /\ parsed.ast.k = "Map"
     \/ /\ input = <<"{", "a", ":", "1", "}">>
        /\ parsed.ast.k = "Struct" /\ parsed.ast.typeName = Null
     \/ /\ input = <<"P", "e", "r", "s", "o", "n", "{", "a", ":", "1", "}">>
        /\ parsed.ast.k = "Struct" /\ parsed.ast.typeName = Str(<<"P", "e", "r", "s", "o", "n">>)
     \/ input = <<"{", "}">> /\ parsed.ast = MapExpression(<<>>)
     \/ input = <<"T", "{", "}">> /\ parsed.ast = Struct(Str(<<"T">>), <<>>)

(***************************************************************************)
(* Escape sequences in string and bytes literals.                          *)
(***************************************************************************)
\* The longest literal content over EscapeChars given to the parser.
MaxEscapeLen == 4

EscapeChars == {"\\", "x", "4", "1", "G"}

\* Literals with the other escapes, prefixes and quotes.
EscapeTexts ==
  {<<"\"", "\\", "x", "4", "1", "\\", "x", "4", "2", "\"">>,
   <<"r", "\"", "\\", "n", "\"">>,
   <<"R", "'", "\\", "x", "4", "1", "'">>,
   <<"r", "\"", "\"", "\"", "\\", "x", "4", "1", "\"", "\"", "\"">>,
   <<"\"", "\"", "\"", "\\", "x", "4", "1", "\"", "\"", "\"">>,
   <<"b", "\"", "\\", "x", "4", "1", "\"">>,
   <<"b", "'", "\\", "x", "G", "1", "'">>,
   <<"\"", "\\", "u", "0", "0", "4", "1", "\"">>,
   <<"\"", "\\", "u", "0", "0", "4", "G", "\"">>,
   <<"\"", "\\", "u", "0", "0", "4", "\"">>,
   <<"\"", "\\", "U", "0", "0", "0", "0", "0", "0", "4", "1", "\"">>,
   <<"\"", "\\", "U", "0", "0", "0", "0", "0", "0", "4", "\"">>,
   <<"\"", "\\", "1", "0", "1", "\"">>,
   <<"\"", "\\", "4", "0", "1", "\"">>,
   <<"\"", "\\", "1", "8", "1", "\"">>,
   <<"\"", "\\", "n", "\\", "t", "\\", "\\", "\"">>,
   <<"\"", "\\", "q", "\"">>,
   <<"'", "\\", "'", "\\", "\"", "'">>}

InitEscape ==
  /\ input \in {<<"\"">> \o content \o <<"\"">> :
                  content \in InputsOver(EscapeChars, MaxEscapeLen)} \cup EscapeTexts
  /\ LexIdle
  /\ EvalIdle
  /\ ParseIdle
SpecEscape == InitEscape /\ [][NextParser]_vars

IsHexDigits(s) == \A j \in 1..Len(s) : DigitValue(s[j]) < 16

\* The value of the digits s in the radix.
RECURSIVE ValueIn(_, _)
ValueIn(s, radix) ==
  IF s = <<>> THEN 0
  ELSE ValueIn(SubSeq(s, 1, Len(s) - 1), radix) * radix + DigitValue(s[Len(s)])

\* The characters the single-character escapes stand for.
SingleEscape(c) ==
  CASE c = "a" -> CodeUnit(7)
    [] c = "b" -> CodeUnit(8)
    [] c = "f" -> CodeUnit(12)
    [] c = "n" -> "\n"
    [] c = "r" -> "\r"
    [] c = "t" -> "\t"
    [] c = "v" -> CodeUnit(11)
    [] OTHER -> c

\* The decoding table applied to s from index i (1-based) on: a sequence of
\* the table is replaced and every other character, a backslash too, is
\* copied.
RECURSIVE Decoded(_, _)
Decoded(s, i) ==
  LET hex(n) == SubSeq(s, i + 2, i + 1 + n)
      isHex(n) == i + 1 + n <= Len(s) /\ IsHexDigits(hex(n))
  IN IF i > Len(s) THEN <<>>
     ELSE IF s[i] # "\\" \/ i = Len(s) THEN <<s[i]>> \o Decoded(s, i + 1)
     ELSE IF s[i + 1] \in {"\\", "\"", "'", "U+96", "?", "a", "b", "f", "n", "r", "t", "v"}
     THEN <<SingleEscape(s[i + 1])>> \o Decoded(s, i + 2)
     ELSE IF s[i + 1] = "x" /\ isHex(2)
     THEN <<CodeUnit(ValueIn(hex(2), 16))>> \o Decoded(s, i + 4)
     ELSE IF s[i + 1] = "u" /\ isHex(4)
     THEN <<CodeUnit(ValueIn(hex(4), 16))>> \o Decoded(s, i + 6)
     ELSE IF s[i + 1] = "U" /\ isHex(8)
     THEN fromCodePoint(IntV(ValueIn(hex(8), 16))) \o Decoded(s, i + 10)
     ELSE IF /\ i + 3 <= Len(s)
             /\ s[i + 1] \in {"0", "1", "2", "3"}
             /\ DigitValue(s[i + 2]) < 8
             /\ DigitValue(s[i + 3]) < 8
     THEN <<CodeUnit(ValueIn(SubSeq(s, i + 1, i + 3), 8))>> \o Decoded(s, i + 4)
     ELSE <<s[i]>> \o Decoded(s, i + 1)

\* The text of a literal without its prefix and quotes, and whether it has
\* the raw prefix.
IsRawLiteral(text) == text[1] \in {"r", "R"}
LiteralContent(text) ==
  LET quoted == IF text[1] \in {"r", "R", "b", "B"} THEN Tail(text) ELSE text
      quotes == IF Len(quoted) >= 6 /\ SubSeq(quoted, 1, 3) \in TripleQuotes THEN 3 ELSE 1
  IN SubSeq(quoted, quotes + 1, Len(quoted) - quotes)

\* C19: the value of a string or bytes literal is its content with only the
\* sequences of the decoding table replaced and every other backslash
\* sequence copied unchanged; the content of a raw literal is not decoded.
DecodesOnlyTheTable ==
  (/\ parsed.k = "ok"
   /\ parsed.ast.k = "Literal"
   /\ parsed.ast.literalType \in {"STRING", "BYTES"}) =>
    parsed.ast.value = Str(IF IsRawLiteral(input) THEN LiteralContent(input)
                           ELSE Decoded(LiteralContent(input), 1))

(***************************************************************************)
(* Lines and columns.                                                      *)
(***************************************************************************)
\* A letter, the two line-end characters and a quote.
LineChars == {"a", "\n", "\r", "\""}

\* Longer texts: line ends inside literals and after escapes, and tokens
\* on later lines.
LineTexts ==
  {<<"a", "\r", "\n", "\r", "\n", " ", "a">>,
   <<"a", "\n", "\r", "a", " ", "=">>,
   <<"\"", "\\", "\r", "\n", "\"", " ", "a">>,
   <<"'", "\r", "a", "'", "a", "\r", "\n", "#">>,
   <<"\r", "\n", "\"", "\"", "\"", "a", "\r", "\n", "\"", "\"", "\"", "a">>,
   <<"\r", " ", "b", "\"", "\n">>,
   <<"a", "\r", "\r", "\n", " ", " ", "1", ".">>,
   <<"\r", "\r", "\n", " ", "a", " ", "#">>,
   <<"a", " ", "a", "\r", "\n", "a">>}

InitLines ==
  /\ input \in InputsOver(LineChars, MaxInputLen) \cup LineTexts
  /\ LexIdle
  /\ EvalIdle
  /\ ParseIdle
SpecLines == InitLines /\ [][NextLexer]_vars

\* Whether the character at index j (1-based) ends a line: a line feed, or
\* a carriage return that no line feed follows.
EndsLine(text, j) ==
  \/ text[j] = "\n"
  \/ text[j] = "\r" /\ ~(j < Len(text) /\ text[j + 1] = "\n")

\* The 1-based line and column of the character at offset pos (0-based).
LineOf(text, pos) == 1 + Cardinality({j \in 1..pos : EndsLine(text, j)})
ColumnOf(text, pos) ==
  LET ends == {j \in 1..pos : EndsLine(text, j)}
  IN pos + 1 - (IF ends = {} THEN 0 ELSE CHOOSE j \in ends : \A h \in ends : h <= j)

\* The line and column carried by x are those of the offset pos.
IsAt(x, text, pos) == x.line = LineOf(text, pos) /\ x.column = ColumnOf(text, pos)

\* The offset of the first character from pos on that is not whitespace.
RECURSIVE PastBlanks(_, _)
PastBlanks(text, pos) ==
  IF pos < Len(text) /\ text[pos + 1] \in WhitespaceChars THEN PastBlanks(text, pos + 1)
  ELSE pos

\* The line and column of the lexer are those of its position.
PositionKept == IsAt(lexer, input, lexer.position)

\* Every token the lexer has returned or holds carries the line and column
\* of an offset at which its text stands, the end of input at the end.
TokenAtItsText ==
  LET held == {history[j].tok : j \in {h \in 1..Len(history) : history[h].k = "ok"}}
              \cup {peeks[j].out.tok : j \in {h \in 1..Len(peeks) : peeks[h].out.k = "ok"}}
              \cup {lexer.lookahead[j] : j \in 1..Len(lexer.lookahead)}
  IN \A tok \in held : \E pos \in 0..Len(input) :
       /\ IsAt(tok, input, pos)
       /\ IF tok.type = "EOF" THEN pos = Len(input)
          ELSE /\ tok.value # <<>>
               /\ pos + Len(tok.value) <= Len(input)
               /\ SubSeq(input, pos + 1, pos + Len(tok.value)) = tok.value

\* A call that scans carries, in the first token it scans or in the error
\* that scanning it raises, the line and column of the first character
\* after the whitespace at the position the lexer was at.
ScannedAtStart ==
  LET start == PastBlanks(input, lexer.position)
      held == Len(lexer.lookahead)
  IN /\ (history' # history /\ held = 0) =>
          IsAt(IF history'[Len(history')].k = "ok" THEN history'[Len(history')].tok
               ELSE history'[Len(history')], input, start)
     /\ (peeks' # peeks /\ peeks'[Len(peeks')].count > held) =>
          IsAt(IF Len(lexer'.lookahead) > held THEN lexer'.lookahead[held + 1]
               ELSE peeks'[Len(peeks')].out, input, start)

\* C20: lines and columns are 1-based; a line feed, a lone carriage return
\* and a carriage return with its line feed each advance the line by one
\* and reset the column to 1, and every other character advances the column
\* by one; every token and every error of the lexer carries the line and
\* column of the first character of the token or literal.
LineAndColumn ==
  /\ PositionKept
  /\ [][PositionKept' /\ TokenAtItsText' /\ ScannedAtStart]_vars

\* Past a carriage return with its line feed and past a lone carriage
\* return, the lexer returned a token of line 3 and raised an error for a
\* literal that starts on line 2 or later.
LineAndColumnWitness ==
  /\ \E j \in 1..Len(input) - 1 : input[j] = "\r" /\ input[j + 1] = "\n"
  /\ \E j \in 1..Len(input) - 1 : input[j] = "\r" /\ input[j + 1] # "\n"
  /\ \E j \in 1..Len(history) :
       history[j].k = "ok" /\ history[j].tok.type # "EOF" /\ history[j].tok.line = 3
  /\ \E j \in 1..Len(history) : history[j].k = "err" /\ history[j].line >= 2

(***************************************************************************)
(* Absent keys and fields.                                                 *)
(***************************************************************************)
AbsentKeys == {KeyA, KeyB, S_toString, S_constructor, S_length}

\* Maps and structs, written out and bound to x.
AbsentOperands ==
  {MapOf(<<>>), MapOf(<<Entry(KeyA, LitInt(1))>>),
   MapOf(<<Entry(KeyA, LitInt(1)), Entry(KeyB, LitNull)>>),
   Struct(Null, <<FieldInitializer(KeyB, LitInt(1))>>),
   Struct(Str(<<"T">>), <<>>), VarX}

AbsentTrees ==
  {Index(operand, LitStr(key)) : operand \in AbsentOperands, key \in AbsentKeys}
    \cup {Index(operand, VarY) : operand \in AbsentOperands}
    \cup {Select(operand, key, FALSE) : operand \in AbsentOperands, key \in AbsentKeys}

AbsentObjects ==
  {Obj([key \in {<<"x">>, <<"y">>} |->
          IF key = <<"x">> THEN target ELSE Str(index)]) :
     target \in {Obj(EmptyOwn), Obj([key \in {KeyA} |-> IntV(1)]),
                 Obj([key \in {KeyA, KeyB} |-> Str(key)])},
     index \in {KeyA, S_toString}}

InitAbsent == InitEval(AbsentTrees, AbsentObjects)
SpecAbsent == InitAbsent /\ [][NextEval]_vars

\* The map or struct that the operand of the Index or Select at the root
\* evaluated to, and the key or field name looked up in it.
AccessedMap ==
  events[CHOOSE j \in 1..Len(events) : IsExit(j, <<"operand">>)].v
AccessedKey ==
  IF ast.k = "Select" THEN ast.field
  ELSE events[CHOOSE j \in 1..Len(events) : IsExit(j, <<"index">>)].v.s

\* The evaluate call was on an Index with a string index or on a Select in
\* normal mode, and the operand evaluated to a map or struct.
AccessedAMap ==
  /\ outcome.k # "none"
  /\ \/ ast.k = "Select" /\ ~ast.isTest
     \/ /\ ast.k = "Index"
        /\ \E j \in 1..Len(events) :
             IsExit(j, <<"index">>) /\ events[j].k = "ok" /\ IsString(events[j].v)
  /\ \E j \in 1..Len(events) :
       IsExit(j, <<"operand">>) /\ events[j].k = "ok" /\ IsMap(events[j].v)

\* C21: indexing a map or struct with a key it does not contain, and
\* selecting a field it does not contain in normal mode, raises an
\* EvaluationError and returns no value.
AbsentKeyRaises ==
  (AccessedAMap /\ ~(AccessedKey \in DOMAIN AccessedMap.own)) =>
    /\ outcome.k = "err"
    /\ outcome.cls = "EvaluationError"

(***************************************************************************)
(* Macro calls: the target, the loop variable and the body.                *)
(***************************************************************************)
\* Argument lists: none, one, a first argument that is no identifier, and
\* well-formed ones whose body is the loop variable, a constant, or raises.
MacroCallArgs ==
  {<<>>, <<VarX>>, <<LitInt(1), VarX>>, <<DivByZero, VarX>>,
   <<Select(VarX, KeyA, FALSE), VarX>>, <<VarX, VarX, VarX>>}
    \cup UNION {{<<Identifier(v), Identifier(v)>>, <<Identifier(v), LitBool(TRUE)>>,
                 <<Identifier(v), DivByZero>>} : v \in LoopVariables}

\* Targets: lists, a text, a map, null, one that raises and the variable y.
MacroCallTargets ==
  {ListExpression(<<>>), ListExpression(<<LitInt(1)>>),
   ListExpression(<<LitInt(2), LitInt(1)>>), ListExpression(<<LitNull, LitInt(1)>>),
   LitStr(KeyA), MapOf(<<>>), LitNull, DivByZero, VarY}

MacroCallTrees ==
  {Call(target, name, args, TRUE) :
     target \in MacroCallTargets, name \in MacroNames, args \in MacroCallArgs}

MacroCallObjects ==
  {Obj(EmptyOwn), ObjX(IntV(2)),
   Obj([key \in {KeyY} |-> List(<<IntV(1), IntV(2), IntV(1)>>)])}

InitMacroCall == InitEval(MacroCallTrees, MacroCallObjects)
SpecMacroCall == InitMacroCall /\ [][NextEval]_vars

\* The events of the call at the root: the exits of its target, the
\* iterations of its loop, and the exits of its second argument.
TargetExits == {j \in 1..Len(events) : IsExit(j, <<"target">>)}
Iterations == {j \in 1..Len(events) : events[j].ev = "iterate" /\ events[j].at = <<>>}
BodyExits == {j \in 1..Len(events) : IsExit(j, <<"arg2">>)}

\* The arguments have the form of a macro's: a bare identifier and a body.
WellFormedArgs == Len(ast.args) >= 2 /\ ast.args[1].k = "Identifier"

\* The loop ran over the list in order, evaluating the body once for each
\* element visited, and a body that is the loop variable evaluated to the
\* element.
BodyPerElement(list) ==
  /\ Cardinality(Iterations) = Cardinality(BodyExits)
  /\ Cardinality(Iterations) <= Len(list)
  /\ \A j \in Iterations :
       /\ events[j].i = 1 + Cardinality({h \in Iterations : h < j})
       /\ events[j].item = list[events[j].i]
       /\ \E h \in BodyExits :
            /\ h > j
            /\ \A g \in Iterations : ~(j < g /\ g < h)
            /\ ast.args[2] = ast.args[1] =>
                 events[h].k = "ok" /\ events[h].v = events[j].item

\* C22: a macro call evaluates its target exactly once and never its first
\* argument; it raises an EvaluationError when the first argument is not a
\* bare identifier, when fewer than two arguments are given, or when the
\* target is not a list; and otherwise it evaluates its second argument
\* once per visited element, in list order, with the loop variable bound to
\* the element.
MacroCallProtocol ==
  (outcome.k # "none" /\ ast.k = "Call" /\ ast.isMacro /\ ast.target # NoExpr) =>
    /\ Cardinality(TargetExits) = 1
    /\ \A j \in 1..Len(events) : ~(events[j].at = <<"arg1">>)
    /\ \A t \in TargetExits :
         IF events[t].k = "err" THEN BodyExits = {} /\ outcome.k = "err"
         ELSE IF ~WellFormedArgs \/ ~IsArray(events[t].v)
         THEN /\ BodyExits = {}
              /\ outcome.k = "err"
              /\ outcome.cls = "EvaluationError"
         ELSE BodyPerElement(Elems(events[t].v))

(***************************************************************************)
(* Calls that are not macros: the arguments and the Function Registry.     *)
(***************************************************************************)
CallArguments == {LitInt(1), LitStr(KeyA), VarX, DivByZero}

CallArgLists ==
  {<<>>} \cup {<<a>> : a \in CallArguments}
    \cup {<<a, b>> : a \in CallArguments, b \in CallArguments}
    \cup {<<LitInt(1), DivByZero, VarY>>, <<VarX, LitInt(1), LitStr(KeyA)>>}

CallTargets ==
  {NoExpr, LitStr(KeyA), ListExpression(<<LitInt(1)>>), LitNull, VarX, DivByZero}

CallTrees ==
  {Call(target, name, args, FALSE) :
     target \in CallTargets, name \in {S_size, S_has, S_contains, S_push, S_map},
     args \in CallArgLists}
    \cup {Call(NoExpr, name, args, TRUE) : name \in {S_size, S_map}, args \in CallArgLists}

CallObjects == {Obj(EmptyOwn), ObjX(IntV(1)), ObjX(List(<<IntV(1)>>)), ObjX(Str(KeyA))}

InitCall == InitEval(CallTrees, CallObjects)
SpecCall == InitCall /\ [][NextEval]_vars

\* The evaluate call was on a Call that is not handled as a macro.
PlainCall ==
  /\ outcome.k # "none"
  /\ ast.k = "Call"
  /\ ~(ast.isMacro /\ ast.target # NoExpr)

\* The event at which the n-th argument of the call at the root, or its
\* target, was visited, and the one at which that visit ended; 0 when there
\* is none.
ArgVisit(n) ==
  LET at == <<"arg" \o ToString(n)>>
  IN IF \E j \in 1..Len(events) : IsVisit(j, at)
     THEN CHOOSE j \in 1..Len(events) : IsVisit(j, at) ELSE 0
ArgExit(n) ==
  LET at == <<"arg" \o ToString(n)>>
  IN IF \E j \in 1..Len(events) : IsExit(j, at)
     THEN CHOOSE j \in 1..Len(events) : IsExit(j, at) ELSE 0
TargetExit ==
  IF \E j \in 1..Len(events) : IsExit(j, <<"target">>)
  THEN CHOOSE j \in 1..Len(events) : IsExit(j, <<"target">>) ELSE 0

\* The invocations of the registry by the call at the root.
Dispatches ==
  {j \in 1..Len(events) :
     events[j].ev \in {"callMethod", "callFunction"} /\ events[j].at = <<>>}

\* An argument or the target raised.
OperandRaised ==
  \/ \E n \in 1..Len(ast.args) : ArgExit(n) # 0 /\ events[ArgExit(n)].k = "err"
  \/ TargetExit # 0 /\ events[TargetExit].k = "err"

\* C23: a call that is not a macro evaluates every argument, left to right,
\* before it invokes the Function Registry, and invokes it exactly once
\* with the values the arguments evaluated to, callMethod when the call has
\* a target and callFunction otherwise; when an argument or the target
\* raises, the registry is not invoked.
ArgumentsThenRegistry ==
  PlainCall =>
    IF OperandRaised THEN Dispatches = {} /\ outcome.k = "err"
    ELSE /\ Cardinality(Dispatches) = 1
         /\ \A d \in Dispatches :
              /\ events[d].ev = IF ast.target # NoExpr THEN "callMethod" ELSE "callFunction"
              /\ events[d].name = ast.functionName
              /\ Len(events[d].args) = Len(ast.args)
              /\ \A n \in 1..Len(ast.args) :
                   /\ ArgVisit(n) # 0
                   /\ ArgExit(n) < d
                   /\ events[d].args[n] = events[ArgExit(n)].v
                   /\ n > 1 => ArgExit(n - 1) < ArgVisit(n)
              /\ ast.target # NoExpr =>
                   /\ TargetExit # 0
                   /\ TargetExit < d
                   /\ events[d].target = events[TargetExit].v

\* A method call with two arguments reached the registry, and a call whose
\* second argument raises ended without reaching it.
ArgumentsThenRegistryWitness ==
  /\ PlainCall
  /\ Len(ast.args) = 2
  /\ ast.target # NoExpr
  /\ \/ /\ ~OperandRaised
        /\ \E d \in Dispatches : events[d].ev = "callMethod" /\ Len(events[d].args) = 2
     \/ /\ ArgExit(2) # 0
        /\ events[ArgExit(2)].k = "err"
        /\ Dispatches = {}

(***************************************************************************)
(* The order of token positions.                                           *)
(***************************************************************************)
\* The tokens the lexer has produced, in the order it scanned them: those
\* next() returned and then those peek has queued.
Produced == TokensOf(history) \o lexer.lookahead

\* Position a is before position b, or the same.
NotAfter(a, b) == a.line < b.line \/ (a.line = b.line /\ a.column <= b.column)

\* C24: in the sequence of tokens a Lexer produces, under any interleaving
\* of next() and peek(count) calls, no token is positioned before the token
\* produced before it, and two tokens that are not the end of input are at
\* different positions.
PositionsMonotonic ==
  \A j \in 1..Len(Produced) - 1 :
    /\ NotAfter(Produced[j], Produced[j + 1])
    /\ (Produced[j].type # "EOF" /\ Produced[j + 1].type # "EOF") =>
         ~NotAfter(Produced[j + 1], Produced[j])

\* After a peek, the lexer has produced two tokens on one line, a third on
\* a later line, and the end of input.
PositionsMonotonicWitness ==
  /\ Len(peeks) > 0
  /\ Len(Produced) >= 4
  /\ Produced[1].line = Produced[2].line
  /\ Produced[2].line < Produced[3].line
  /\ Produced[3].type # "EOF"
  /\ Produced[4].type = "EOF"

(***************************************************************************)
(* Qualified type names and Select chains.                                 *)
(***************************************************************************)
QualifiedChars == {"a", ".", "{", "}", "(", ")"}

\* The texts over QualifiedChars of at most MaxBraceLen characters that
\* open at most MaxBraces braces and as many parentheses.
QualifiedInputs ==
  {text \in InputsOver(QualifiedChars, MaxBraceLen) :
     /\ Cardinality({j \in 1..Len(text) : text[j] = "{"}) <= MaxBraces
     /\ Cardinality({j \in 1..Len(text) : text[j] = "("}) <= MaxBraces}

QualifiedTexts ==
  {<<"a", ".", "b", ".", "C", "{", "f", ":", " ", "1", "}">>,
   <<"a", ".", "b", ".", "C", "{", "}">>,
   <<"a", " ", ".", " ", "b", " ", "{", "}">>,
   <<"a", ".", "b", ".", "c", ".", "d">>,
   <<"a", ".", "b", ".", "c", "(", "1", ")", ".", "d">>,
   <<"a", ".", "b", "(", ")", ".", "c", "{", "}">>,
   <<"a", ".", "b", ".", "{", "}">>,
   <<"a", ".", "b", ".", "1", "{", "}">>,
   <<"a", ".", "b", "[", "0", "]">>,
   <<"a", ".", "b", " ", "+", " ", "c", ".", "d", "{", "}">>,
   <<"a", ".", "b", " ", "?", " ", "c", " ", ":", " ", "{", "}">>,
   <<"a", ".", "b", ".", "c", "{", "f", "}">>}

InitQualified ==
  /\ input \in QualifiedInputs \cup QualifiedTexts
  /\ LexIdle
  /\ EvalIdle
  /\ ParseIdle
SpecQualified == InitQualified /\ [][NextParser]_vars

\* The tokens of the text, as far as the lexer returns them, then EOF.
TokensOfText(text) ==
  LET tokens == TokensFrom(text, NewLexer, Len(text) + 1)
  IN [j \in 1..Len(text) + 2 |->
        IF j <= Len(tokens) THEN tokens[j] ELSE Token("EOF", <<>>, 0, 0)]

\* The index of the first token from j on that does not continue a run of
\* `. identifier` pairs.
RECURSIVE ChainEnd(_, _)
ChainEnd(tokens, j) ==
  IF j + 1 <= Len(tokens) /\ tokens[j].type = "DOT" /\ tokens[j + 1].type = "IDENTIFIER"
  THEN ChainEnd(tokens, j + 2) ELSE j

\* The text of the tokens 1 .. n, joined.
RECURSIVE Joined(_, _)
Joined(tokens, n) == IF n = 0 THEN <<>> ELSE Joined(tokens, n - 1) \o tokens[n].value

\* The Select chain of the tokens 1 .. n, `identifier (. identifier)*`.
RECURSIVE SelectChain(_, _)
SelectChain(tokens, n) ==
  IF n <= 1 THEN Identifier(tokens[1].value)
  ELSE Select(SelectChain(tokens, n - 2), tokens[n].value, FALSE)

\* C25: after an identifier and a dot, the parser takes the tokens for a
\* qualified struct type name only when they are one or more `. identifier`
\* pairs that end in `{`, and the Struct then carries the dotted name; in
\* every other case the tokens are parsed as a Select or Call chain on the
\* Identifier, none of them lost to the lookahead.
QualifiedOnlyBeforeBrace ==
  LET tokens == TokensOfText(input)
      end == ChainEnd(tokens, 2)
  IN (parsed.k # "none" /\ tokens[1].type = "IDENTIFIER" /\ tokens[2].type = "DOT") =>
       IF end > 2 /\ tokens[end].type = "LBRACE"
       THEN parsed.k = "ok" =>
              /\ Leftmost(parsed.ast).k = "Struct"
              /\ Leftmost(parsed.ast).typeName = Str(Joined(tokens, end - 1))
       ELSE /\ parsed.k = "ok" => Leftmost(parsed.ast) = Identifier(tokens[1].value)
            /\ (end > 2 /\ tokens[end].type = "EOF") =>
                 parsed.k = "ok" /\ parsed.ast = SelectChain(tokens, end - 1)

\* `a.b.C{f: 1}` was parsed to a Struct of type a.b.C, or `a.b.c.d` to a
\* chain of three Selects.
QualifiedWitness ==
  /\ parsed.k = "ok"
  /\ \/ /\ input = <<"a", ".", "b", ".", "C", "{", "f", ":", " ", "1", "}">>
        /\ parsed.ast.k = "Struct"
        /\ parsed.ast.typeName = Str(<<"a", ".", "b", ".", "C">>)
     \/ /\ input = <<"a", ".", "b", ".", "c", ".", "d">>
        /\ parsed.ast.k = "Select"
        /\ parsed.ast.operand.k = "Select"
        /\ parsed.ast.operand.operand.k = "Select"

(***************************************************************************)
(* Precedence and associativity.                                           *)
(***************************************************************************)
\* The most binary operators in a generated text.
MaxOperators == 3

\* Operators of the five binary levels, as written.
OperatorTexts ==
  {<<"|", "|">>, <<"&", "&">>, <<"<">>, <<"=", "=">>, <<"i", "n">>, <<"+">>, <<"-">>,
   <<"*">>, <<"%">>}

OperandTexts == <<"a", "b", "c", "d", "e", "f">>

\* a op b op c ..., blanks between the tokens.
RECURSIVE Alternating(_, _)
Alternating(ops, n) ==
  IF n = 0 THEN <<OperandTexts[1]>>
  ELSE Alternating(ops, n - 1) \o <<" ">> \o ops[n] \o <<" ", OperandTexts[n + 1]>>

\* Texts with the unary operators and the conditional.
PrecedenceTexts ==
  {<<"-", "a", " ", "*", " ", "!", "b">>,
   <<"!", "a", " ", "&", "&", " ", "-", "-", "b">>,
   <<"a", " ", "-", " ", "-", "b", " ", "-", " ", "c">>,
   <<"-", "a", ".", "b", " ", "+", " ", "c">>,
   <<"a", " ", "?", " ", "b", " ", ":", " ", "c">>,
   <<"a", " ", "?", " ", "b", " ", ":", " ", "c", " ", "?", " ", "d", " ", ":", " ", "e">>,
   <<"a", " ", "|", "|", " ", "b", " ", "?", " ", "c", " ", "+", " ", "d", " ", ":", " ",
     "e", " ", "|", "|", " ", "f">>,
   <<"a", " ", "?", " ", "b", " ", "?", " ", "c", " ", ":", " ", "d", " ", ":", " ", "e">>,
   <<"a", " ", "+">>, <<"a", " ", "<", " ", "*", " ", "b">>}

InitPrecedence ==
  /\ input \in {Alternating(ops, Len(ops)) :
                  ops \in UNION {[1..n -> OperatorTexts] : n \in 0..MaxOperators}}
                 \cup PrecedenceTexts
  /\ LexIdle
  /\ EvalIdle
  /\ ParseIdle
SpecPrecedence == InitPrecedence /\ [][NextParser]_vars

\* The level of a node in the precedence order, the conditional lowest.
LevelOf(e) ==
  CASE e.k = "Conditional" -> 1
    [] e.k = "Binary" /\ e.op = "LOGICAL_OR" -> 2
    [] e.k = "Binary" /\ e.op = "LOGICAL_AND" -> 3
    [] e.k = "Binary" /\ e.op \in {"ADD", "SUBTRACT"} -> 5
    [] e.k = "Binary" /\ e.op \in {"MULTIPLY", "DIVIDE", "MODULO"} -> 6
    [] e.k = "Binary" -> 4
    [] e.k = "Unary" -> 7
    [] OTHER -> 8

\* Every operator has only higher levels below it, except that a binary
\* operator may have its own level to the left and a conditional any level
\* in its else branch.
RECURSIVE ByPrecedence(_)
ByPrecedence(e) ==
  CASE e.k = "Binary" ->
         /\ LevelOf(e.left) >= LevelOf(e)
         /\ LevelOf(e.right) > LevelOf(e)
         /\ ByPrecedence(e.left)
         /\ ByPrecedence(e.right)
    [] e.k = "Conditional" ->
         /\ LevelOf(e.condition) > 1
         /\ LevelOf(e.thenExpr) > 1
         /\ ByPrecedence(e.condition)
         /\ ByPrecedence(e.thenExpr)
         /\ ByPrecedence(e.otherwiseExpr)
    [] e.k = "Unary" -> LevelOf(e.operand) >= 7 /\ ByPrecedence(e.operand)
    [] e.k = "Select" -> LevelOf(e.operand) = 8 /\ ByPrecedence(e.operand)
    [] OTHER -> TRUE

\* How an operation is written.
WrittenAs(op) ==
  CASE op = "LOGICAL_OR" -> <<"|", "|">>
    [] op = "LOGICAL_AND" -> <<"&", "&">>
    [] op = "LESS" -> <<"<">>
    [] op = "EQUAL" -> <<"=", "=">>
    [] op = "IN" -> <<"i", "n">>
    [] op = "ADD" -> <<"+">>
    [] op = "SUBTRACT" -> <<"-">>
    [] op = "MULTIPLY" -> <<"*">>
    [] op = "MODULO" -> <<"%">>
    [] op = "NOT" -> <<"!">>
    [] op = "NEGATE" -> <<"-">>
    [] OTHER -> <<"?", "?">>

\* The tree written out again, token by token, without parentheses.
RECURSIVE Unparsed(_)
Unparsed(e) ==
  CASE e.k = "Binary" -> Unparsed(e.left) \o <<WrittenAs(e.op)>> \o Unparsed(e.right)
    [] e.k = "Conditional" ->
         Unparsed(e.condition) \o <<<<"?">>>> \o Unparsed(e.thenExpr) \o <<<<":">>>>
           \o Unparsed(e.otherwiseExpr)
    [] e.k = "Unary" -> <<WrittenAs(e.op)>> \o Unparsed(e.operand)
    [] e.k = "Select" -> Unparsed(e.operand) \o <<<<".">>, e.field>>
    [] e.k = "Identifier" -> <<e.name>>
    [] OTHER -> <<<<"?", "?">>>>

\* The texts of the tokens of the input before the end of input.
TokenTexts(text) ==
  LET tokens == TokensFrom(text, NewLexer, Len(text) + 1)
      n == Cardinality({j \in 1..Len(tokens) : tokens[j].type # "EOF"})
  IN [j \in 1..n |-> tokens[j].value]

\* C26: the tree of a text without parentheses holds the tokens of the text
\* in their order, with every operator above the adjacent operators of
\* higher levels: binary operators of one level fold to the left, and a
\* conditional nests in its else branch; a text of operands with binary
\* operators between them is parsed.
TreeByPrecedence ==
  /\ parsed.k = "ok" => ByPrecedence(parsed.ast) /\ Unparsed(parsed.ast) = TokenTexts(input)
  /\ (parsed.k # "none" /\ ~(input \in PrecedenceTexts)) => parsed.k = "ok"

\* `a + b * c` has ADD at the root and MULTIPLY to its right, `a - b - c`
\* has the first subtraction to the left of the second, and the conditional
\* in the else branch of a conditional is its otherwiseExpr.
TreeByPrecedenceWitness ==
  /\ parsed.k = "ok"
  /\ \/ /\ input = <<"a", " ", "+", " ", "b", " ", "*", " ", "c">>
        /\ parsed.ast = Binary("ADD", Identifier(<<"a">>),
                               Binary("MULTIPLY", Identifier(<<"b">>), Identifier(<<"c">>)))
     \/ /\ input = <<"a", " ", "-", " ", "b", " ", "-", " ", "c">>
        /\ parsed.ast = Binary("SUBTRACT",
                               Binary("SUBTRACT", Identifier(<<"a">>), Identifier(<<"b">>)),
                               Identifier(<<"c">>))
     \/ /\ parsed.ast.k = "Conditional"
        /\ parsed.ast.otherwiseExpr.k = "Conditional"

(***************************************************************************)
(* The order and equality together.                                        *)
(***************************************************************************)
\* The literal of the text `0x`: parseInt finds no digit.
LitNoDigits == Literal(parseIntLiteral(<<"0", "x">>), "INT")

TrichotomyOperands ==
  {LitNull, LitBool(TRUE), LitBool(FALSE), LitInt(1), LitInt(2), LitDouble(1, 2),
   LitDouble(2, 1), LitStr(KeyA), LitStr(KeyB), LitStr(<<"A">>), LitStr(<<>>),
   LitNoDigits, VarX, MapOf(<<>>),
   ListExpression(<<>>), ListExpression(<<LitInt(1)>>), ListExpression(<<LitNull>>),
   ListExpression(<<LitInt(1), LitInt(2)>>), ListExpression(<<LitInt(2)>>),
   ListExpression(<<LitStr(KeyA)>>), ListExpression(<<ListExpression(<<LitInt(1)>>)>>)}

\* The four comparisons of two operands, evaluated one after the other:
\* a < b, a == b, a > b and b > a.
Comparisons(a, b) ==
  ListExpression(<<Binary("LESS", a, b), Binary("EQUAL", a, b), Binary("GREATER", a, b),
                   Binary("GREATER", b, a)>>)

TrichotomyTrees == {Comparisons(a, b) : a \in TrichotomyOperands, b \in TrichotomyOperands}

TrichotomyObjects ==
  {ObjX(IntV(1)), ObjX(Str(KeyA)), ObjX(List(<<IntV(1), Null>>)), ObjX(Null)}

InitTrichotomy == InitEval(TrichotomyTrees, TrichotomyObjects)
SpecTrichotomy == InitTrichotomy /\ [][NextEval]_vars

\* C27: for two values on which the comparison does not raise, exactly one
\* of a < b, a == b and a > b is true, and a < b is true iff b > a is.
ExactlyOneOfThree ==
  (outcome.k = "ok" /\ ast.k = "List" /\ Len(ast.elements) = 4) =>
    /\ Cardinality({j \in 1..3 : outcome.v.l[j] = Bool(TRUE)}) = 1
    /\ outcome.v.l[1] = outcome.v.l[4]

(***************************************************************************)
(* A macro inside a macro over the same loop variable.                     *)
(***************************************************************************)
\* The inner macros over the loop variable v: over a literal list, an empty
\* list, the outer element itself and a number; returning and raising.
NestedMacros(v) ==
  {Call(target, name, <<Identifier(v), body>>, TRUE) :
     target \in {ListExpression(<<LitInt(2), LitNull>>), ListExpression(<<>>),
                 Identifier(v)},
     name \in {S_map, S_all, S_existsOne},
     body \in {Identifier(v), DivByZero, LitBool(TRUE)}}

\* The outer bodies: the inner macro, and the loop variable after it.
NestedBodies(v) ==
  UNION {{ListExpression(<<inner, Identifier(v)>>),
          ListExpression(<<Identifier(v), inner, Identifier(v)>>)} : inner \in NestedMacros(v)}

NestedTrees ==
  UNION {{Call(target, name, <<Identifier(v), body>>, TRUE) :
            target \in {ListExpression(<<LitInt(1), LitInt(2)>>),
                        ListExpression(<<LitNull, LitInt(1)>>),
                        ListExpression(<<ListExpression(<<LitInt(1)>>), LitInt(2)>>)},
            name \in MacroNames, body \in NestedBodies(v)} :
          v \in LoopVariables}

NestedObjects == {Obj(EmptyOwn), ObjX(IntV(1))}

InitNested == InitEval(NestedTrees, NestedObjects)
SpecNested == InitNested /\ [][NextEval]_vars

\* The element of the outer iteration that event j belongs to.
OuterItem(j) ==
  LET earlier == {h \in 1..(j - 1) : events[h].ev = "iterate" /\ events[h].at = <<>>}
  IN events[CHOOSE h \in earlier : \A g \in earlier : g <= h].item

\* The name is bound to the value in the environment.
BoundTo(env, name, value) == JsIn(name, env) /\ JsGet(env, name) = value

\* C28: when the body of a macro holds a macro over the same loop variable,
\* the name is bound to the outer element again once the inner macro has
\* ended, by a return or by an exception; the outer body sees the outer
\* element in every iteration; and after the outer macro the name is bound
\* as it was before.
NestedMacroRestoresOuter ==
  (outcome.k # "none" /\ ast.k = "Call" /\ ast.isMacro) =>
    \A j \in 1..Len(events) :
      /\ (events[j].ev = "macro" /\ events[j].at # <<>>) =>
           BoundTo(events[j].after, ast.args[1].name, OuterItem(j))
      /\ (/\ events[j].ev = "exit"
          /\ Len(events[j].at) = 2
          /\ events[MatchVisit(j)].kind = "Identifier") =>
           events[j].k = "ok" /\ events[j].v = OuterItem(j)
      /\ (events[j].ev = "macro" /\ events[j].at = <<>>) =>
           /\ JsIn(ast.args[1].name, events[j].before)
                = JsIn(ast.args[1].name, events[j].after)
           /\ JsIn(ast.args[1].name, events[j].before) =>
                BoundTo(events[j].after, ast.args[1].name,
                        JsGet(events[j].before, ast.args[1].name))

(***************************************************************************)
(* Termination of the Lexer and of the Parser.                             *)
(***************************************************************************)
\* A letter and a blank.
EndingChars == {"a", " "}

\* Longer texts: numbers cut short, a character no token starts with,
\* trailing blanks, and literals that do not end.
EndingTexts ==
  {<<"0", "x">>, <<"1", ".">>, <<"1", "e", "+">>, <<"1", ".", "5", "u">>,
   <<"\"">>, <<"\"", "a">>, <<"\"", "a", "\"", " ">>, <<" ", "'", "'", "a">>,
   <<"1", " ", "1">>, <<"\"", "\\", "\"">>, <<"\"", "a", "\\">>, <<"r", "\"", "\\", "\"">>,
   <<"a", " ", "#", " ", "a">>, <<"a", ".", "a", " ", " ">>,
   <<"\"", "\"", "\"", "a", "\"", "\"">>, <<"b", "\"", "\\">>,
   <<"a", "=", "=", "a", "&">>, <<"a", ".", "b", "(", "1", ")">>,
   <<"a", "[", "1", "]", ".", "b">>, <<"a", ".", "b", "{", "}">>}

InitEnding ==
  /\ input \in InputsOver(EndingChars, MaxInputLen) \cup EndingTexts
  /\ LexIdle
  /\ EvalIdle
  /\ ParseIdle
NextEnding == LexerNext \/ LexerPeek \/ ParserNew \/ ParserParse
SpecEnding == InitEnding /\ [][NextEnding]_vars

\* Every character has been scanned and every token scanned from a
\* character has been returned.
Exhausted(lx) ==
  /\ lx.position >= Len(input)
  /\ \A j \in 1..Len(lx.lookahead) : lx.lookahead[j].type = "EOF"

\* What is left to return: the characters not scanned and the tokens held.
Remaining(lx) == Len(input) - lx.position + Len(lx.lookahead)

\* The scan positions of the Lexer and of the Lexer of the Parser are
\* within the input.
WithinInput ==
  /\ lexer.position \in 0..Len(input)
  /\ parser.k = "made" => parser.ps.lx.position \in 0..Len(input)

\* A next() call that scans raises or moves on by one character or more; a
\* next() call that returns a token returns the end of input when the
\* input is exhausted, which it then always does, and otherwise leaves less
\* to return.
NextMovesOn ==
  history' # history =>
    /\ (Len(lexer.lookahead) = 0 /\ lexer.position < Len(input)) =>
         \/ history'[Len(history')].k = "err"
         \/ lexer'.position >= lexer.position + 1
    /\ Exhausted(lexer) =>
         /\ history'[Len(history')].k = "ok"
         /\ history'[Len(history')].tok.type = "EOF"
         /\ Exhausted(lexer')
    /\ (history'[Len(history')].k = "ok" /\ ~Exhausted(lexer)) =>
         Remaining(lexer') < Remaining(lexer)

\* A peek(n) call on an exhausted input returns the end of input; no peek
\* moves the scan position back.
PeekAtTheEnd ==
  peeks' # peeks =>
    /\ lexer'.position >= lexer.position
    /\ Exhausted(lexer) =>
         /\ peeks'[Len(peeks')].out.k = "ok"
         /\ peeks'[Len(peeks')].out.tok.type = "EOF"
         /\ Exhausted(lexer')

\* parse() returns or raises on every Parser that was made.
ParseReturns ==
  (parser.k = "made" /\ parsed.k = "none") => parse(parser.ps).k \in {"ok", "err"}

\* parse() leaves the scan position where it was or further on.
ParseMovesOn ==
  parsed' # parsed =>
    /\ parsed'.k \in {"ok", "err"}
    /\ parser'.ps.lx.position >= parser.ps.lx.position

KeyLiterals ==
  {LitInt(1), LitStr(<<"1">>), LitInt(2), LitBool(TRUE), LitStr(S_true), LitNull,
   LitStr(S_null), LitStr(KeyA)}

\* Map literals of one entry, and of two with unequal keys; the n-th entry
\* holds the value n.
KeyedOnce == {MapOf(<<MapEntry(key, LitInt(1))>>) : key \in KeyLiterals}
KeyedTwice ==
  {MapOf(<<MapEntry(pair[1], LitInt(1)), MapEntry(pair[2], LitInt(2))>>) :
     pair \in {q \in KeyLiterals \X KeyLiterals : ~deepEquals(q[1].value, q[2].value)}}

MapKeyTrees ==
  {Binary("IN", probe, map) : probe \in KeyLiterals, map \in KeyedOnce \cup KeyedTwice}
    \cup {Index(map, probe) : probe \in KeyLiterals, map \in KeyedOnce \cup KeyedTwice}
    \cup {Binary("EQUAL", left, right) : left \in KeyedOnce, right \in KeyedOnce}
    \cup {Binary("EQUAL", MapOf(<<MapEntry(LitInt(1), LitInt(1)),
                                  MapEntry(LitInt(2), LitInt(2))>>), right) :
            right \in KeyedTwice}

InitMapKeys == InitEval(MapKeyTrees, {Obj(EmptyOwn)})
SpecMapKeys == InitMapKeys /\ [][NextEval]_vars

\* The entries of the map literal whose key equals the value.
EntriesAt(map, value) ==
  {j \in 1..Len(map.entries) : deepEquals(map.entries[j].key.value, value)}

\* Each key of one map literal equals a key of the other.
SameKeys(left, right) ==
  /\ \A j \in 1..Len(left.entries) : EntriesAt(right, left.entries[j].key.value) # {}
  /\ \A j \in 1..Len(right.entries) : EntriesAt(left, right.entries[j].key.value) # {}

\* C30: a map literal whose keys are pairwise unequal under == has one
\* entry per key; `in` finds a value in it, and indexing with a value
\* yields an entry, only when the value equals a key, and indexing then
\* yields the value of that key; two such maps whose keys are not equal
\* are not ==.
MapKeysAreValues ==
  outcome.k # "none" =>
    /\ \A j \in 1..Len(events) :
         (events[j].ev = "exit" /\ events[MatchVisit(j)].kind = "Map") =>
           /\ events[j].k = "ok"
           /\ Cardinality(ObjectKeys(events[j].v)) = Len(ast[events[j].at[1]].entries)
    /\ (ast.k = "Binary" /\ ast.op = "IN") =>
         /\ outcome.k = "ok"
         /\ outcome.v = Bool(EntriesAt(ast.right, ast.left.value) # {})
    /\ ast.k = "Index" =>
         IF EntriesAt(ast.operand, ast.index.value) = {} THEN outcome.k = "err"
         ELSE /\ outcome.k = "ok"
              /\ \E j \in EntriesAt(ast.operand, ast.index.value) :
                   outcome.v = ast.operand.entries[j].value.value
    /\ (ast.k = "Binary" /\ ast.op = "EQUAL" /\ ~SameKeys(ast.left, ast.right)) =>
         /\ outcome.k = "ok"
         /\ outcome.v = Bool(FALSE)

=============================================================================
